---------------------------- MODULE Spec2Model ----------------------------
(***************************************************************************)
(* The recursive raytracer of tinyraytracer.c in its Q16.16 build          *)
(* (USE_FIXED): scalar kernel, vectors, intersections, cast_ray as an      *)
(* explicit call stack, and the RGB8 render callback.                      *)
(* A scal is a signed 32-bit integer; every operation is computed with     *)
(* intermediate values that stay inside 32 bits, and wraps modulo 2^32     *)
(* where the C code narrows an int64 to scal.  ADD, SUB and NEG wrap too:  *)
(* that is the add the build emits; a signed overflow is undefined in C,   *)
(* and the inputs below stay where no sum overflows.                       *)
(* A C function with several locals is a chain of operators: each link     *)
(* takes the locals computed so far as parameters and is named after the   *)
(* function and the local it starts from (sphere_hit_L: sphere_hit from    *)
(* the point where L is known).                                            *)
(***************************************************************************)
EXTENDS Integers, Sequences, FiniteSets, TLC

(*************************** Scalar + ops **********************************)
MaxInt == 2147483647
MinInt == -MaxInt - 1

SHIFT == 16
ONE == 65536
HALF == 32768

\* two's complement value of the 32-bit word hi16:lo16
Word(hi, lo) == (IF hi >= 32768 THEN hi - 65536 ELSE hi) * 65536 + lo

S(x) == Word(x % 65536, 0)

\* SF(n/d): trunc(f * 65536.0 + (f >= 0 ? 0.5 : -0.5)), f = n/d, d > 0
SF(n, d) ==
  IF n >= 0 THEN (2 * n * 65536 + d) \div (2 * d)
            ELSE -((2 * (-n) * 65536 + d) \div (2 * d))

ADD(a, b) ==
  IF a >= 0 /\ b >= 0 /\ a > MaxInt - b THEN (a - MaxInt - 1) + (b - MaxInt - 1)
  ELSE IF a < 0 /\ b < 0 /\ a < MinInt - b THEN (a + MaxInt + 1) + (b + MaxInt + 1)
  ELSE a + b

NEG(a) == IF a = MinInt THEN MinInt ELSE -a

SUB(a, b) ==
  IF b = MinInt THEN (IF a < 0 THEN a - b ELSE a + MinInt) ELSE ADD(a, -b)

\* floor(al * bl / 2^16) for 16-bit al, bl
MulLow(al, bl) == ((al \div 256) * bl + ((al % 256) * bl) \div 256) \div 256

\* (hh * 2^32 + (X + Y) * 2^16 + al * bl) >> 16, narrowed to 32 bits
MUL_sum(hh, X, Y, q) ==
  Word((hh + (X \div 65536) + (Y \div 65536)
           + (((X % 65536) + (Y % 65536) + q) \div 65536)) % 65536,
       ((X % 65536) + (Y % 65536) + q) % 65536)

\* (scal)(((int64_t)a * (int64_t)b) >> SHIFT), by 16-bit halves of a and b
MUL(a, b) ==
  MUL_sum((a \div 65536) * (b \div 65536), (a \div 65536) * (b % 65536),
          (a % 65536) * (b \div 65536), MulLow(a % 65536, b % 65536))

MAX(a, b) == IF a > b THEN a ELSE b
MIN(a, b) == IF a < b THEN a ELSE b
ABS(a) == IF a < 0 THEN NEG(a) ELSE a

\* 16 steps of binary long division of r * 2^16 by B (0 <= r < B)
RECURSIVE DivFrac(_, _, _, _)
DivFrac(r, B, n, acc) ==
  IF n = 0 THEN acc
  ELSE IF r >= B - r THEN DivFrac(r - (B - r), B, n - 1, 2 * acc + 1)
       ELSE DivFrac(r + r, B, n - 1, 2 * acc)

\* the 32-bit word of sign * (hi * 2^16 + lo)
DIV_word(neg, hi, lo) ==
  IF ~neg THEN Word(hi, lo)
  ELSE IF lo = 0 THEN Word((65536 - hi) % 65536, 0)
  ELSE Word(65535 - hi, 65536 - lo)

DIV_abs(neg, A, B) == DIV_word(neg, (A \div B) % 65536, DivFrac(A % B, B, 16, 0))

\* (scal)(((int64_t)a << SHIFT) / (int64_t)b): C division truncates
DIV(a, b) == DIV_abs((a < 0) # (b < 0), IF a < 0 THEN -a ELSE a, IF b < 0 THEN -b ELSE b)

(* ---- uint64_t as four 16-bit limbs, least significant first ---- *)
U64(l0, l1, l2, l3) == <<l0, l1, l2, l3>>
U64Zero == U64(0, 0, 0, 0)

RECURSIVE U64Cmp(_, _, _)
\* -1, 0, 1 as a < b, a = b, a > b, comparing limbs i..1
U64Cmp(a, b, i) ==
  IF i = 0 THEN 0
  ELSE IF a[i] > b[i] THEN 1
  ELSE IF a[i] < b[i] THEN -1
  ELSE U64Cmp(a, b, i - 1)

U64Gt(a, b) == U64Cmp(a, b, 4) = 1
U64Ge(a, b) == U64Cmp(a, b, 4) >= 0

U64Add(a, b) ==
  LET s1 == a[1] + b[1]
      s2 == a[2] + b[2] + (s1 \div 65536)
      s3 == a[3] + b[3] + (s2 \div 65536)
      s4 == a[4] + b[4] + (s3 \div 65536)
  IN  U64(s1 % 65536, s2 % 65536, s3 % 65536, s4 % 65536)

U64Sub(a, b) ==
  LET d1 == a[1] - b[1]
      d2 == a[2] - b[2] + (d1 \div 65536)
      d3 == a[3] - b[3] + (d2 \div 65536)
      d4 == a[4] - b[4] + (d3 \div 65536)
  IN  U64(d1 % 65536, d2 % 65536, d3 % 65536, d4 % 65536)

\* a >> k for k in 1..15
U64Shr(a, k) ==
  LET p == 2 ^ k
      u == 2 ^ (16 - k)
  IN  U64((a[1] \div p) + (a[2] % p) * u,
          (a[2] \div p) + (a[3] % p) * u,
          (a[3] \div p) + (a[4] % p) * u,
          a[4] \div p)

RECURSIVE IsqrtAlign(_, _)
\* while (one > op) one >>= 2;
IsqrtAlign(one, op) ==
  IF U64Gt(one, op) THEN IsqrtAlign(U64Shr(one, 2), op) ELSE one

RECURSIVE IsqrtLoop(_, _, _)
\* one pass of while (one) { ... one >>= 2; } with t = res + one
IsqrtStep(op, res, one, t) ==
  IF U64Ge(op, t)
  THEN IsqrtLoop(U64Sub(op, t), U64Add(U64Shr(res, 1), one), U64Shr(one, 2))
  ELSE IsqrtLoop(op, U64Shr(res, 1), U64Shr(one, 2))

IsqrtLoop(op, res, one) ==
  IF one = U64Zero THEN res ELSE IsqrtStep(op, res, one, U64Add(res, one))

\* (uint32_t)res as the 32-bit word read as a scal
isqrt_u64(x) == IsqrtLoop(x, U64Zero, IsqrtAlign(U64(0, 0, 0, 16384), x))

SQRT_word(res) == Word(res[2], res[1])

\* the root taken of x itself, the shift by SHIFT left out
SQRT_unshifted(x) ==
  IF x <= 0 THEN 0 ELSE SQRT_word(isqrt_u64(U64(x % 65536, x \div 65536, 0, 0)))

SQRT(x) ==
  IF x <= 0 THEN 0 ELSE SQRT_word(isqrt_u64(U64(0, x % 65536, x \div 65536, 0)))

\* the loops of isqrt_u64 are followed for at most this many passes
MaxPasses == 64

RECURSIVE IsqrtAlignPasses(_, _, _)
\* passes of while (one > op) one >>= 2; added to n
IsqrtAlignPasses(one, op, n) ==
  IF n < MaxPasses /\ U64Gt(one, op) THEN IsqrtAlignPasses(U64Shr(one, 2), op, n + 1) ELSE n

RECURSIVE IsqrtLoopPasses(_, _)
\* passes of while (one) { ...; one >>= 2; } added to n
IsqrtLoopPasses(one, n) ==
  IF n < MaxPasses /\ one # U64Zero THEN IsqrtLoopPasses(U64Shr(one, 2), n + 1) ELSE n

\* the passes of the two loops of isqrt_u64(x) together
isqrt_u64_passes(x) ==
  IsqrtLoopPasses(IsqrtAlign(U64(0, 0, 0, 16384), x),
                  IsqrtAlignPasses(U64(0, 0, 0, 16384), x, 0))

RECURSIVE PowLoop_evenbits(_, _, _)
\* r multiplied on the zero bits of e instead of the one bits
PowLoop_evenbits(r, a, e) ==
  IF e = 0 THEN r
  ELSE PowLoop_evenbits(IF e % 2 = 0 THEN MUL(r, a) ELSE r, MUL(a, a), e \div 2)

RECURSIVE PowLoop(_, _, _)
\* while (e) { if (e & 1) r = MUL(r, a); a = MUL(a, a); e >>= 1; }
PowLoop(r, a, e) ==
  IF e = 0 THEN r
  ELSE PowLoop(IF e % 2 = 1 THEN MUL(r, a) ELSE r, MUL(a, a), e \div 2)

POWI(a, e) == PowLoop(ONE, a, e)

RECURSIVE PowLoopPasses(_, _)
\* passes of while (e) { ...; e >>= 1; } added to n
PowLoopPasses(e, n) ==
  IF n < MaxPasses /\ e # 0 THEN PowLoopPasses(e \div 2, n + 1) ELSE n

TO_INT(a) == a \div 65536

SURF_BIAS == S(1)
EPS_Y == SF(1, 1000)
INV_2TAN_FOV == 56756
BIG_SCAL == MaxInt

(***************************** Vectors *************************************)
V3(x, y, z) == <<x, y, z>>
V4(x, y, z, w) == <<x, y, z, w>>
v3_add(a, b) == V3(ADD(a[1], b[1]), ADD(a[2], b[2]), ADD(a[3], b[3]))
v3_sub(a, b) == V3(SUB(a[1], b[1]), SUB(a[2], b[2]), SUB(a[3], b[3]))
v3_neg(a) == V3(NEG(a[1]), NEG(a[2]), NEG(a[3]))
v3_scale(s, a) == V3(MUL(s, a[1]), MUL(s, a[2]), MUL(s, a[3]))
v3_dot(a, b) == ADD(ADD(MUL(a[1], b[1]), MUL(a[2], b[2])), MUL(a[3], b[3]))
v3_len(a) == SQRT(v3_dot(a, a))
v3_norm_L(a, L) == IF L = 0 THEN a ELSE v3_scale(DIV(ONE, L), a)
v3_norm(a) == v3_norm_L(a, v3_len(a))

(* What a function executes of DIV and SQRT: ops = [divs, sqrts], the set of *)
(* the divisors handed to DIV and the set of the arguments handed to SQRT.   *)
NoOps == [divs |-> {}, sqrts |-> {}]
OpsU(p, q) == [divs |-> p.divs \cup q.divs, sqrts |-> p.sqrts \cup q.sqrts]
\* v3_len(a): SQRT(v3_dot(a, a))
v3_len_ops(a) == [divs |-> {}, sqrts |-> {v3_dot(a, a)}]
\* the division made whatever L is
v3_norm_divs_unguarded(a) == {v3_len(a)}
\* the divisors of the calls of DIV v3_norm executes
v3_norm_divs(a) == IF v3_len(a) = 0 THEN {} ELSE {v3_len(a)}
v3_norm_ops(a) == [divs |-> v3_norm_divs(a), sqrts |-> {v3_dot(a, a)}]

(****************************** Scene **************************************)
Light(position, intensity) == [position |-> position, intensity |-> intensity]
Material(refr, albedo, diffuse, spec) ==
  [refr |-> refr, albedo |-> albedo, diffuse |-> diffuse, spec |-> spec]
Sphere(center, radius, m) == [center |-> center, radius |-> radius, m |-> m]

\* the factor 2 of the mirror formula left out
reflect_half(I, N) == v3_sub(I, v3_scale(v3_dot(I, N), N))

reflect(I, N) == v3_sub(I, v3_scale(MUL(S(2), v3_dot(I, N)), N))

\* calls of refract_ followed at most this deep
MaxNest == 4

RECURSIVE refract_(_, _, _, _)

\* the root added to eta*cosi instead of subtracted
refract_k_plus(I, N, eta, cosi, k) ==
  IF k < 0 THEN V3(ONE, 0, 0)
  ELSE v3_add(v3_scale(eta, I), v3_scale(ADD(MUL(eta, cosi), SQRT(k)), N))

\* the test of k left out: the formula evaluated for every k
refract_k_untested(I, N, eta, cosi, k) ==
  v3_add(v3_scale(eta, I), v3_scale(SUB(MUL(eta, cosi), SQRT(k)), N))

refract_k(I, N, eta, cosi, k) ==
  IF k < 0 THEN V3(ONE, 0, 0)
  ELSE v3_add(v3_scale(eta, I), v3_scale(SUB(MUL(eta, cosi), SQRT(k)), N))

\* k taken with the inverse of eta^2
refract_eta_inverse(I, N, eta, cosi) ==
  refract_k(I, N, eta, cosi,
            SUB(ONE, MUL(DIV(ONE, MUL(eta, eta)), SUB(ONE, MUL(cosi, cosi)))))

refract_eta(I, N, eta, cosi) ==
  refract_k(I, N, eta, cosi,
            SUB(ONE, MUL(MUL(eta, eta), SUB(ONE, MUL(cosi, cosi)))))

refract_cosi(I, N, eta_t, eta_i, cosi) ==
  IF cosi < 0 THEN refract_(I, v3_neg(N), eta_i, eta_t)
  ELSE refract_eta(I, N, DIV(eta_i, eta_t), cosi)

\* dotIN after the two clamping statements
refract_clamp(d) == IF d < NEG(ONE) THEN NEG(ONE) ELSE IF d > ONE THEN ONE ELSE d

refract_(I, N, eta_t, eta_i) ==
  refract_cosi(I, N, eta_t, eta_i, NEG(refract_clamp(v3_dot(I, N))))

RECURSIVE refract_nest_same(_, _, _)
\* the nested call made with N as it is
refract_nest_same(I, N, n) ==
  IF n < MaxNest /\ NEG(refract_clamp(v3_dot(I, N))) < 0
  THEN refract_nest_same(I, N, n + 1)
  ELSE n

RECURSIVE refract_nest(_, _, _)
\* how deep the calls of refract_ nest when the n-th one is refract_(I, N, ..):
\* src lines 180-187, followed for at most MaxNest calls
refract_nest(I, N, n) ==
  IF n < MaxNest /\ NEG(refract_clamp(v3_dot(I, N))) < 0
  THEN refract_nest(I, v3_neg(N), n + 1)
  ELSE n

(*************************** Intersections *********************************)
\* the final test against the bias left out
sphere_hit_t0_any(t0) == [ok |-> TRUE, t0 |-> t0]

\* ok is the return value; t0 is *t0 after the call (t0in when never stored)
sphere_hit_t0(t0) == [ok |-> ~(t0 < SURF_BIAS), t0 |-> t0]

\* the far intersection taken whatever the near one is
sphere_hit_thc_far(tca, thc) == sphere_hit_t0(ADD(tca, thc))

sphere_hit_thc(tca, thc) ==
  sphere_hit_t0(IF SUB(tca, thc) < SURF_BIAS THEN ADD(tca, thc) ELSE SUB(tca, thc))

sphere_hit_d2(t0in, tca, d2, r2) ==
  IF d2 > r2 THEN [ok |-> FALSE, t0 |-> t0in]
  ELSE sphere_hit_thc(tca, SQRT(SUB(r2, d2)))

sphere_hit_tca(sp, t0in, LL, tca) ==
  sphere_hit_d2(t0in, tca, SUB(LL, MUL(tca, tca)), MUL(sp.radius, sp.radius))

sphere_hit_L(sp, dir, t0in, L) == sphere_hit_tca(sp, t0in, v3_dot(L, L), v3_dot(L, dir))

sphere_hit(sp, orig, dir, t0in) == sphere_hit_L(sp, dir, t0in, v3_sub(sp.center, orig))

(* src/render.c, vec3_length, vec3_scale and vec3_normalize (float), on the   *)
(* zero vector and on vectors along an axis whose length is a power of two:  *)
(* there the products, the root and the quotient are exact. A finite float   *)
(* is <<"num", 65536 times its value>>; 1.0f/0 is <<"inf", 0>> and its       *)
(* product with 0 is <<"nan", 0>>.                                           *)
vec3_length(U) == SQRT(ADD(ADD(MUL(U[1], U[1]), MUL(U[2], U[2])), MUL(U[3], U[3])))

\* 1.0f/L
vec3_normalize_inv(L) == IF L = 0 THEN <<"inf", 0>> ELSE <<"num", DIV(ONE, L)>>

\* s*x for the float s and the finite x
vec3_scale_mul(s, x) ==
  IF s[1] = "inf" THEN (IF x = 0 THEN <<"nan", 0>> ELSE <<"inf", 0>>)
  ELSE <<"num", MUL(s[2], x)>>

vec3_scale(s, U) == <<vec3_scale_mul(s, U[1]), vec3_scale_mul(s, U[2]), vec3_scale_mul(s, U[3])>>

vec3_normalize(U) == vec3_scale(vec3_normalize_inv(vec3_length(U)), U)

\* the divisors of the divisions vec3_normalize executes
vec3_normalize_divs(U) == {vec3_length(U)}

(* src/render.c, Sphere_ray_intersect (float). A float is written as the     *)
(* integer 65536 times its value; the operators below stand for the float    *)
(* operations on arguments where those are exact and agree with the Q16.16   *)
(* ones: coordinates, radii and distances that are multiples of 1/2 at most  *)
(* 181, a ray along a coordinate axis through the centre.                    *)
\* the two tests made against SURF_BIAS, as in src/tinyraytracer.c
Sphere_ray_intersect_t1_biased(t0, t1) ==
  [ok |-> ~((IF t0 < SURF_BIAS THEN t1 ELSE t0) < SURF_BIAS),
   t0 |-> IF t0 < SURF_BIAS THEN t1 ELSE t0]

\* if (*t0 < 0) *t0 = t1; if (*t0 < 0) return 0; return 1;
Sphere_ray_intersect_t1(t0, t1) ==
  [ok |-> ~((IF t0 < 0 THEN t1 ELSE t0) < 0), t0 |-> IF t0 < 0 THEN t1 ELSE t0]

Sphere_ray_intersect_thc(tca, thc) == Sphere_ray_intersect_t1(SUB(tca, thc), ADD(tca, thc))

Sphere_ray_intersect_d2(t0in, tca, d2, r2) ==
  IF d2 > r2 THEN [ok |-> FALSE, t0 |-> t0in]
  ELSE Sphere_ray_intersect_thc(tca, SQRT(SUB(r2, d2)))

Sphere_ray_intersect_tca(S_, t0in, LL, tca) ==
  Sphere_ray_intersect_d2(t0in, tca, SUB(LL, MUL(tca, tca)), MUL(S_.radius, S_.radius))

Sphere_ray_intersect(S_, orig, dir, t0in) ==
  Sphere_ray_intersect_tca(S_, t0in, v3_dot(v3_sub(S_.center, orig), v3_sub(S_.center, orig)),
                           v3_dot(v3_sub(S_.center, orig), dir))

\* the body of the if at src lines 220-223: acc = [dist, hit, N, mat]
scene_hit_take(s, di, pt) ==
  [dist |-> di, hit |-> pt, N |-> v3_norm(v3_sub(pt, s.center)), mat |-> s.m]

\* every sphere that is hit taken, nearer than the ones before or not
scene_hit_di_last(s, orig, dir, acc, h) ==
  IF h.ok
  THEN scene_hit_take(s, h.t0, v3_add(orig, v3_scale(h.t0, dir)))
  ELSE acc

\* the test at src line 219 on the result h of sphere_hit
scene_hit_di(s, orig, dir, acc, h) ==
  IF h.ok /\ h.t0 < acc.dist
  THEN scene_hit_take(s, h.t0, v3_add(orig, v3_scale(h.t0, dir)))
  ELSE acc

RECURSIVE scene_hit_spheres(_, _, _, _, _)
\* for (i = 0; i < ns; i++) of scene_hit, from sphere i (1-based) on
scene_hit_spheres(i, sp, orig, dir, acc) ==
  IF i > Len(sp) THEN acc
  ELSE scene_hit_spheres(i + 1, sp, orig, dir,
         scene_hit_di(sp[i], orig, dir, acc, sphere_hit(sp[i], orig, dir, 0)))

CheckerGrey == V3(SF(3, 10), SF(3, 10), SF(3, 10))
CheckerBrown == V3(SF(3, 10), SF(2, 10), SF(1, 10))

\* stripes: the z cell index left out of the parity
CheckerColor_x(pt) ==
  IF TO_INT(ADD(MUL(SF(5, 10), pt[1]), S(1000))) % 2 = 1
  THEN CheckerGrey ELSE CheckerBrown

\* the colour chosen at src lines 236-239 for the floor point pt
CheckerColor(pt) ==
  IF (TO_INT(ADD(MUL(SF(5, 10), pt[1]), S(1000))) + TO_INT(MUL(SF(5, 10), pt[3]))) % 2 = 1
  THEN CheckerGrey ELSE CheckerBrown

\* the test of src lines 231-232
PlaneAccepts(d, pt, spheres_dist) ==
  /\ d > SURF_BIAS
  /\ ABS(pt[1]) < S(10)
  /\ pt[3] < S(-10)
  /\ pt[3] > S(-30)
  /\ d < spheres_dist

\* src lines 243-244 and the values left in *hit, *N, *mat
scene_hit_best(a, checker_dist, hit, N, mat) ==
  [ok |-> MIN(a.dist, checker_dist) < S(1000), hit |-> hit, N |-> N, mat |-> mat,
   spheres_dist |-> a.dist, checker_dist |-> checker_dist]

\* the floor made matte as well: the specular exponent set to 0 with the colour
scene_hit_pt_matte(a, d, pt) ==
  IF PlaneAccepts(d, pt, a.dist)
  THEN scene_hit_best(a, d, pt, V3(0, ONE, 0),
                      [a.mat EXCEPT !.diffuse = CheckerColor(pt), !.spec = 0])
  ELSE scene_hit_best(a, BIG_SCAL, a.hit, a.N, a.mat)

scene_hit_pt(a, d, pt) ==
  IF PlaneAccepts(d, pt, a.dist)
  THEN scene_hit_best(a, d, pt, V3(0, ONE, 0),
                      [a.mat EXCEPT !.diffuse = CheckerColor(pt)])
  ELSE scene_hit_best(a, BIG_SCAL, a.hit, a.N, a.mat)

scene_hit_d(orig, dir, a, d) == scene_hit_pt(a, d, v3_add(orig, v3_scale(d, dir)))

\* the plane test, after the loop over the spheres left a
scene_hit_plane(orig, dir, a) ==
  IF ABS(dir[2]) > EPS_Y
  THEN scene_hit_d(orig, dir, a, DIV(NEG(ADD(orig[2], S(4))), dir[2]))
  ELSE scene_hit_best(a, BIG_SCAL, a.hit, a.N, a.mat)


\* hit0, N0, mat0 are *hit, *N, *mat on entry
scene_hit(orig, dir, sp, hit0, N0, mat0) ==
  scene_hit_plane(orig, dir,
    scene_hit_spheres(1, sp, orig, dir,
      [dist |-> BIG_SCAL, hit |-> hit0, N |-> N0, mat |-> mat0]))

\* the material of the hit written through to every sphere of sp[], as if mat
\* pointed into the scene
scene_hit_sp_alias(sp, h) ==
  IF h.ok THEN [i \in DOMAIN sp |-> [sp[i] EXCEPT !.m = h.mat]] ELSE sp

\* sp[] after scene_hit returned h: sp is a pointer to const, the function
\* stores through hit, N and mat only (src lines 214-215, 221-223, 234-239)
scene_hit_sp(sp, h) == sp

(****************************** Scene data *********************************)
ivory == Material(SF(10, 10), V4(SF(6, 10), SF(3, 10), SF(1, 10), SF(0, 10)),
                  V3(SF(4, 10), SF(4, 10), SF(3, 10)), 50)
glass == Material(SF(15, 10), V4(SF(0, 10), SF(5, 10), SF(1, 10), SF(8, 10)),
                  V3(SF(6, 10), SF(7, 10), SF(8, 10)), 125)
redrb == Material(SF(10, 10), V4(SF(9, 10), SF(1, 10), SF(0, 10), SF(0, 10)),
                  V3(SF(3, 10), SF(1, 10), SF(1, 10)), 10)
mirror == Material(SF(10, 10), V4(SF(0, 10), SF(100, 10), SF(8, 10), SF(0, 10)),
                   V3(ONE, ONE, ONE), 142)

spheres ==
  << Sphere(V3(S(-3), 0, S(-16)), S(2), ivory),
     Sphere(V3(SF(-10, 10), SF(-15, 10), S(-12)), S(2), glass),
     Sphere(V3(SF(15, 10), SF(-5, 10), S(-18)), S(3), redrb),
     Sphere(V3(S(7), S(5), S(-18)), S(4), mirror) >>

lights ==
  << Light(V3(S(-20), S(20), S(20)), SF(15, 10)),
     Light(V3(S(30), S(50), S(-25)), SF(18, 10)),
     Light(V3(S(30), S(20), S(30)), SF(17, 10)) >>

GL_width == 80
GL_height == 50
DIRZ_SCALE == NEG(MUL(S(GL_height), INV_2TAN_FOV))

(******************************* Tracing ***********************************)
MAXD == 2

DefaultMaterial == Material(ONE, V4(ONE, 0, 0, 0), V3(0, 0, 0), 0)

\* the depth limit tested one level too late
DepthExceeded_late(depth) == depth > MAXD + 1

\* the first operand of the test at src line 254
DepthExceeded(depth) == depth > MAXD

\* the nested calls made at the caller's own depth
ChildDepth_same(depth) == depth

\* the depth argument of the two nested calls, src lines 268-269
ChildDepth(depth) == depth + 1

\* the gradient taken along dir.x instead of dir.y
SkyColor_x(dir) ==
  LET s == MUL(SF(5, 10), ADD(dir[1], ONE))
  IN  v3_add(v3_scale(s, V3(SF(2, 10), SF(7, 10), SF(8, 10))),
             v3_scale(s, V3(0, 0, SF(5, 10))))

\* the first sky colour left unscaled: A + s*B
SkyColor_lerp(dir) ==
  LET s == MUL(SF(5, 10), ADD(dir[2], ONE))
  IN  v3_add(V3(SF(2, 10), SF(7, 10), SF(8, 10)), v3_scale(s, V3(0, 0, SF(5, 10))))

\* src lines 255-257
SkyColor(dir) ==
  LET s == MUL(SF(5, 10), ADD(dir[2], ONE))
  IN  v3_add(v3_scale(s, V3(SF(2, 10), SF(7, 10), SF(8, 10))),
             v3_scale(s, V3(0, 0, SF(5, 10))))

\* P moved by SURF_BIAS along -N or +N (src lines 263-266, 276-277)
BiasedOrigin(D, P, N) ==
  IF v3_dot(D, N) < 0 THEN v3_sub(P, v3_scale(SURF_BIAS, N))
                      ELSE v3_add(P, v3_scale(SURF_BIAS, N))

\* src lines 284-289 with MAX(0, Ldir.N) and base computed; acc = [diff, spec]
cast_ray_base(lt, M, acc, lambert, base) ==
  [diff |-> ADD(acc.diff, MUL(lt.intensity, lambert)),
   spec |-> IF base > 0 /\ M.spec > 0
            THEN ADD(acc.spec, MUL(lt.intensity, POWI(base, M.spec)))
            ELSE acc.spec]

\* the calls <<base, e>> of POWI made by src lines 287-289
cast_ray_base_powi(M, base) ==
  IF base > 0 /\ M.spec > 0 THEN {<<base, M.spec>>} ELSE {}

\* the light added whatever the shadow ray found
cast_ray_shadow_none(lt, N, M, dir, acc, Ldir, Ldist, Sorg, sh) ==
  cast_ray_base(lt, M, acc, MAX(0, v3_dot(Ldir, N)),
                MAX(0, v3_dot(v3_neg(reflect(v3_neg(Ldir), N)), dir)))

\* src lines 280-286 on the result sh of the shadow ray's scene_hit
cast_ray_shadow(lt, N, M, dir, acc, Ldir, Ldist, Sorg, sh) ==
  IF sh.ok /\ v3_len(v3_sub(sh.hit, Sorg)) < Ldist
  THEN acc
  ELSE cast_ray_base(lt, M, acc, MAX(0, v3_dot(Ldir, N)),
                     MAX(0, v3_dot(v3_neg(reflect(v3_neg(Ldir), N)), dir)))

\* the calls of POWI in one iteration of the light loop, src lines 273-289
cast_ray_shadow_powi(N, M, dir, Ldir, Ldist, Sorg, sh) ==
  IF sh.ok /\ v3_len(v3_sub(sh.hit, Sorg)) < Ldist
  THEN {}
  ELSE cast_ray_base_powi(M, MAX(0, v3_dot(v3_neg(reflect(v3_neg(Ldir), N)), dir)))
cast_ray_Ldir_powi(lt, sp, P, N, M, dir, Ldir) ==
  cast_ray_shadow_powi(N, M, dir, Ldir, v3_len(v3_sub(lt.position, P)),
                       BiasedOrigin(Ldir, P, N),
                       scene_hit(BiasedOrigin(Ldir, P, N), Ldir, sp,
                                 V3(0, 0, 0), V3(0, 0, 0), M))
cast_ray_light_powi(lt, sp, P, N, M, dir) ==
  cast_ray_Ldir_powi(lt, sp, P, N, M, dir, v3_norm(v3_sub(lt.position, P)))

cast_ray_Sorg(lt, sp, N, M, dir, acc, Ldir, Ldist, Sorg) ==
  cast_ray_shadow(lt, N, M, dir, acc, Ldir, Ldist, Sorg,
                  scene_hit(Sorg, Ldir, sp, V3(0, 0, 0), V3(0, 0, 0), M))

cast_ray_Ldir(lt, sp, P, N, M, dir, acc, Ldir, Ldist) ==
  cast_ray_Sorg(lt, sp, N, M, dir, acc, Ldir, Ldist, BiasedOrigin(Ldir, P, N))

\* one iteration of the light loop, src lines 273-289
cast_ray_light(lt, sp, P, N, M, dir, acc) ==
  cast_ray_Ldir(lt, sp, P, N, M, dir, acc,
                v3_norm(v3_sub(lt.position, P)), v3_len(v3_sub(lt.position, P)))

\* the result of the scene_hit call of src line 280, for the light lt
cast_ray_shadow_hit(lt, sp, P, N, M) ==
  scene_hit(BiasedOrigin(v3_norm(v3_sub(lt.position, P)), P, N),
            v3_norm(v3_sub(lt.position, P)), sp, V3(0, 0, 0), V3(0, 0, 0), M)

\* the composed colour with every component cut at ONE
cast_ray_C_clamped(M, diff, spec, Rcol, Tcol) ==
  [k \in 1..3 |->
     MIN(ONE, ADD(ADD(ADD(MUL(MUL(diff, M.albedo[1]), M.diffuse[k]),
                          MUL(MUL(spec, M.albedo[2]), ONE)),
                      MUL(M.albedo[3], Rcol[k])),
                  MUL(M.albedo[4], Tcol[k])))]

\* src lines 292-296
cast_ray_C(M, diff, spec, Rcol, Tcol) ==
  v3_add(v3_add(v3_add(v3_scale(MUL(diff, M.albedo[1]), M.diffuse),
                       v3_scale(MUL(spec, M.albedo[2]), V3(ONE, ONE, ONE))),
                v3_scale(M.albedo[3], Rcol)),
         v3_scale(M.albedo[4], Tcol))

(********************* DIV and SQRT as the functions reach them ************)
\* sphere_hit: SQRT(SUB(r2, d2)) after the test d2 > r2, src lines 200-204
sphere_hit_ops_d2(d2, r2) ==
  IF d2 > r2 THEN NoOps ELSE [divs |-> {}, sqrts |-> {SUB(r2, d2)}]
sphere_hit_ops_L(sp, dir, L) ==
  sphere_hit_ops_d2(SUB(v3_dot(L, L), MUL(v3_dot(L, dir), v3_dot(L, dir))),
                    MUL(sp.radius, sp.radius))
sphere_hit_ops(sp, orig, dir) == sphere_hit_ops_L(sp, dir, v3_sub(sp.center, orig))

\* refract_: DIV(eta_i, eta_t) and SQRT(k) after the test k < 0, src lines 186-192
refract_ops_k(eta_t, k) ==
  [divs |-> {eta_t}, sqrts |-> IF k < 0 THEN {} ELSE {k}]
refract_ops_eta(eta_t, eta, cosi) ==
  refract_ops_k(eta_t, SUB(ONE, MUL(MUL(eta, eta), SUB(ONE, MUL(cosi, cosi)))))
RECURSIVE refract_ops(_, _, _, _)
refract_ops(I, N, eta_t, eta_i) ==
  IF NEG(refract_clamp(v3_dot(I, N))) < 0
  THEN refract_ops(I, v3_neg(N), eta_i, eta_t)
  ELSE refract_ops_eta(eta_t, DIV(eta_i, eta_t), NEG(refract_clamp(v3_dot(I, N))))

\* scene_hit, sphere i taken with the result h of sphere_hit: the v3_norm of
\* src line 222; acc = [dist, ops]
scene_hit_ops_di(s, orig, dir, acc, h) ==
  IF h.ok /\ h.t0 < acc.dist
  THEN [dist |-> h.t0,
        ops |-> OpsU(OpsU(acc.ops, sphere_hit_ops(s, orig, dir)),
                     v3_norm_ops(v3_sub(v3_add(orig, v3_scale(h.t0, dir)), s.center)))]
  ELSE [dist |-> acc.dist, ops |-> OpsU(acc.ops, sphere_hit_ops(s, orig, dir))]
RECURSIVE scene_hit_ops_spheres(_, _, _, _, _)
scene_hit_ops_spheres(i, sp, orig, dir, acc) ==
  IF i > Len(sp) THEN acc.ops
  ELSE scene_hit_ops_spheres(i + 1, sp, orig, dir,
         scene_hit_ops_di(sp[i], orig, dir, acc, sphere_hit(sp[i], orig, dir, 0)))
\* the division of the plane test made whatever dir.y is
scene_hit_ops_plane_unguarded(dir) == [divs |-> {dir[2]}, sqrts |-> {}]
\* the DIV of src line 228 after the test of src line 227
scene_hit_ops_plane(dir) ==
  IF ABS(dir[2]) > EPS_Y THEN [divs |-> {dir[2]}, sqrts |-> {}] ELSE NoOps
scene_hit_ops(orig, dir, sp) ==
  OpsU(scene_hit_ops_spheres(1, sp, orig, dir, [dist |-> BIG_SCAL, ops |-> NoOps]),
       scene_hit_ops_plane(dir))

\* cast_ray from its entry to the call for Rcol, on the result h of scene_hit:
\* src lines 254-261
cast_ray_enter_ops_h(orig, dir, sp, h) ==
  IF ~h.ok THEN scene_hit_ops(orig, dir, sp)
  ELSE OpsU(OpsU(scene_hit_ops(orig, dir, sp), v3_norm_ops(reflect(dir, h.N))),
            OpsU(refract_ops(dir, h.N, h.mat.refr, ONE),
                 v3_norm_ops(refract_(dir, h.N, h.mat.refr, ONE))))
cast_ray_enter_ops(orig, dir, sp, depth, M) ==
  IF DepthExceeded(depth) THEN NoOps
  ELSE cast_ray_enter_ops_h(orig, dir, sp,
                            scene_hit(orig, dir, sp, V3(0, 0, 0), V3(0, 0, 0), M))

\* one iteration of the light loop, src lines 273-281: v3_norm and v3_len of
\* the vector to the light, scene_hit, and v3_len when scene_hit is true
cast_ray_light_ops_sh(Sorg, Ldir, sp, sh) ==
  OpsU(scene_hit_ops(Sorg, Ldir, sp),
       IF sh.ok THEN v3_len_ops(v3_sub(sh.hit, Sorg)) ELSE NoOps)
cast_ray_light_ops_Ldir(lt, sp, P, N, M, Ldir) ==
  OpsU(OpsU(v3_norm_ops(v3_sub(lt.position, P)), v3_len_ops(v3_sub(lt.position, P))),
       cast_ray_light_ops_sh(BiasedOrigin(Ldir, P, N), Ldir, sp,
                             cast_ray_shadow_hit(lt, sp, P, N, M)))
cast_ray_light_ops(lt, sp, P, N, M) ==
  cast_ray_light_ops_Ldir(lt, sp, P, N, M, v3_norm(v3_sub(lt.position, P)))

(***************************************************************************)
(* raym_earth_fp (src/tinyraytracer.c, lines 384-830): the terrain         *)
(* renderer in Q16.16 with the quarter-wave sine table.                    *)
(***************************************************************************)
QUARTER_TABLE_SIZE == 256
QUARTER_TABLE_MASK == QUARTER_TABLE_SIZE - 1
FP_PI_DIV_2 == 102944
FP_PI == 205887
FP_TWO_PI == 411775
FP_0_1 == 6554
FP_0_5 == 32768
FP_TEN == S(10)

\* src line 592: ((fixed_t)(((int64_t)(a) * (b)) >> FP_SHIFT))
FP_MUL(a, b) == MUL(a, b)
\* src line 593: ((fixed_t)(((int64_t)(a) << FP_SHIFT) / (b)))
FP_DIV(a, b) == DIV(a, b)

quarter_sin_table ==
  << 0, 402, 804, 1206, 1608, 2010, 2412, 2814,
     3215, 3617, 4018, 4420, 4821, 5222, 5622, 6023,
     6423, 6823, 7223, 7623, 8022, 8421, 8819, 9218,
     9616, 10013, 10410, 10807, 11204, 11600, 11995, 12390,
     12785, 13179, 13573, 13966, 14359, 14751, 15142, 15533,
     15923, 16313, 16702, 17091, 17479, 17866, 18253, 18638,
     19024, 19408, 19792, 20175, 20557, 20938, 21319, 21699,
     22078, 22456, 22833, 23210, 23586, 23960, 24334, 24707,
     25079, 25450, 25820, 26189, 26557, 26925, 27291, 27656,
     28020, 28383, 28745, 29105, 29465, 29824, 30181, 30538,
     30893, 31247, 31600, 31952, 32302, 32651, 32999, 33346,
     33692, 34036, 34379, 34721, 35061, 35400, 35738, 36074,
     36409, 36743, 37075, 37406, 37736, 38064, 38390, 38716,
     39039, 39362, 39682, 40002, 40319, 40636, 40950, 41263,
     41575, 41885, 42194, 42501, 42806, 43110, 43412, 43712,
     44011, 44308, 44603, 44897, 45189, 45480, 45768, 46055,
     46340, 46624, 46906, 47186, 47464, 47740, 48015, 48288,
     48558, 48828, 49095, 49360, 49624, 49886, 50146, 50403,
     50660, 50914, 51166, 51416, 51665, 51911, 52155, 52398,
     52639, 52877, 53114, 53348, 53581, 53811, 54040, 54266,
     54491, 54713, 54933, 55152, 55368, 55582, 55794, 56004,
     56212, 56417, 56621, 56822, 57022, 57219, 57414, 57606,
     57797, 57986, 58172, 58356, 58538, 58718, 58895, 59070,
     59243, 59414, 59583, 59749, 59913, 60075, 60235, 60392,
     60547, 60700, 60850, 60998, 61144, 61288, 61429, 61568,
     61705, 61839, 61971, 62100, 62228, 62353, 62475, 62596,
     62714, 62829, 62942, 63053, 63162, 63268, 63371, 63473,
     63571, 63668, 63762, 63854, 63943, 64030, 64115, 64197,
     64276, 64353, 64428, 64501, 64571, 64638, 64703, 64766,
     64826, 64884, 64939, 64992, 65043, 65091, 65136, 65179,
     65220, 65258, 65294, 65327, 65358, 65386, 65412, 65436,
     65457, 65475, 65491, 65505, 65516, 65524, 65531, 65534 >>

RECURSIVE fp_sin_raise(_)
\* while (angle < 0) angle += FP_TWO_PI;
fp_sin_raise(angle) == IF angle < 0 THEN fp_sin_raise(angle + FP_TWO_PI) ELSE angle
RECURSIVE fp_sin_lower(_)
\* while (angle >= FP_TWO_PI) angle -= FP_TWO_PI;
fp_sin_lower(angle) == IF angle >= FP_TWO_PI THEN fp_sin_lower(angle - FP_TWO_PI) ELSE angle
fp_sin_normalize(angle) == fp_sin_lower(fp_sin_raise(angle))

\* the angle within the quarter wave that the quadrant of the normalised angle
\* looks up: angle, FP_PI - angle, angle - FP_PI or FP_TWO_PI - angle
fp_sin_quarter(angle) ==
  IF angle < FP_PI_DIV_2 THEN angle
  ELSE IF angle < FP_PI THEN FP_PI - angle
  ELSE IF angle < FP_PI + FP_PI_DIV_2 THEN angle - FP_PI
  ELSE FP_TWO_PI - angle
\* ((int64_t)angle * QUARTER_TABLE_SIZE) / FP_PI_DIV_2
fp_sin_index(quarter) == (quarter * QUARTER_TABLE_SIZE) \div FP_PI_DIV_2
\* quarter_sin_table[index & QUARTER_TABLE_MASK]
fp_sin_entry(index) == quarter_sin_table[(index % (QUARTER_TABLE_MASK + 1)) + 1]
\* the sign given to the entry by the quadrant of the normalised angle
fp_sin_signed(angle, entry) == IF angle < FP_PI THEN entry ELSE -entry
fp_sin(angle) ==
  fp_sin_signed(fp_sin_normalize(angle),
                fp_sin_entry(fp_sin_index(fp_sin_quarter(fp_sin_normalize(angle)))))
\* src lines 705-707
fp_cos(angle) == fp_sin(FP_PI_DIV_2 - angle)

FP_0_2 == 13107
FP_0_4 == 26214

\* the quotient of C for a divisor b > 0: towards zero
CDiv(a, b) == IF a >= 0 THEN a \div b ELSE -((-a) \div b)

\* src lines 729-730: screen_x and screen_y of pixel (x, y)
render_pixel_screen_x(x) == FP_MUL(FP_DIV(S(x - GL_width \div 2), S(GL_width)), S(2))
render_pixel_screen_y(y) == FP_MUL(FP_DIV(S(y - GL_height \div 2), S(GL_height)), S(2))
\* src lines 739-744 in the first pass of the marching loop, dist = FP_ONE:
\* world_x, world_z and ray_height, read from the camera of e
render_pixel_march(e, ray_angle, screen_y, dist) ==
  <<e.cam_x + FP_MUL(fp_sin(ray_angle), dist),
    e.cam_y + FP_MUL(fp_cos(ray_angle), dist),
    e.cam_z - FP_MUL(screen_y, FP_MUL(dist, FP_0_4)) - FP_MUL(dist, FP_0_2)>>
render_pixel_first(x, y, e) ==
  render_pixel_march(e, e.cam_angle + FP_MUL(render_pixel_screen_x(x), FP_0_5),
                     render_pixel_screen_y(y), ONE)

\* the globals cam_x, cam_y, cam_z, cam_angle
Camera(e) == <<e.cam_x, e.cam_y, e.cam_z, e.cam_angle>>

\* one call of render_pixel made by GL_scan_RGBf, on pixel number e.px of the
\* pixels followed: the camera it reads is added to seen; a call that wrote
\* the camera would show in the record it returns, which is e but for px,
\* seen and sample
GL_scan_pixel_turning(e, pixel) ==
  [e EXCEPT !.px = @ + 1, !.seen = @ \cup {Camera(e)},
            !.sample = render_pixel_first(pixel[1], pixel[2], e),
            !.cam_angle = @ + FP_MUL(render_pixel_screen_x(pixel[1]), FP_0_5)]

GL_scan_pixel(e, pixel) ==
  [e EXCEPT !.px = @ + 1, !.seen = @ \cup {Camera(e)},
            !.sample = render_pixel_first(pixel[1], pixel[2], e)]

\* src lines 802-803
main_advance(e) ==
  [e EXCEPT !.cam_x = @ + FP_MUL(fp_sin(e.cam_angle), FP_0_1),
            !.cam_y = @ + FP_MUL(fp_cos(e.cam_angle), FP_0_1)]
\* src line 805
main_timer(e) == [e EXCEPT !.timer = @ - 1]
\* src lines 811-812
main_rot_speed(frame) == CDiv((((frame * 7) % 100) - 50) * 655, 90)
\* src lines 808-813
main_straight(e) ==
  IF e.timer <= 0
  THEN [e EXCEPT !.state = 1, !.timer = 90, !.rot_speed = main_rot_speed(e.frame)]
  ELSE e
\* src lines 816-820, cam_angle already moved
main_rotated(e) ==
  IF e.timer <= 0 THEN [e EXCEPT !.state = 0, !.timer = 180, !.rot_speed = 0] ELSE e
\* src lines 807-821
main_navigate(e) ==
  IF e.state = 0 THEN main_straight(e)
  ELSE main_rotated([e EXCEPT !.cam_angle = @ + e.rot_speed])
\* src line 823
main_frame(e) == [e EXCEPT !.frame = @ + 1]
\* src lines 798-824 after GL_scan_RGBf: the rest of one pass of while(1)
main_pass(e) == main_frame(main_navigate(main_timer(main_advance(e))))

\* the record kept of the passes: the passes made in the phase under way and in
\* all, the scan started again; f is e after the pass
main_counted(e, f) ==
  [f EXCEPT !.px = 1, !.seen = {},
            !.run = IF f.state = e.state THEN @ + 1 ELSE 0,
            !.n_frames = @ + 1]

\* src lines 710-713 and 794-797: the globals and the locals of main when the
\* loop is entered
EarthStart ==
  [cam_x |-> 0, cam_y |-> 0, cam_z |-> FP_TEN, cam_angle |-> 0,
   frame |-> 0, state |-> 0, timer |-> 180, rot_speed |-> 0,
   px |-> 1, seen |-> {}, sample |-> <<0, 0, 0>>, run |-> 0, n_frames |-> 0]
\* the program 1730340 passes later, at the start of a rotation phase
EarthLate ==
  [cam_x |-> -156755816, cam_y |-> -33265204, cam_z |-> FP_TEN, cam_angle |-> -8446230,
   frame |-> 1730340, state |-> 1, timer |-> 90, rot_speed |-> 167,
   px |-> 1, seen |-> {}, sample |-> <<0, 0, 0>>, run |-> 0, n_frames |-> 0]

(****************************** Rendering **********************************)
\* src lines 337-341: the primary ray of pixel (x, y)
render_dir(x, y) ==
  v3_norm(V3(SUB(ADD(S(x), SF(5, 10)), S(GL_width \div 2)),
             SUB(S(GL_height \div 2), ADD(S(y), SF(5, 10))),
             DIRZ_SCALE))

\* the v3_norm of src line 341
render_dir_ops(x, y) ==
  v3_norm_ops(V3(SUB(ADD(S(x), SF(5, 10)), S(GL_width \div 2)),
                 SUB(S(GL_height \div 2), ADD(S(y), SF(5, 10))),
                 DIRZ_SCALE))

\* the rounding half left out: truncation
render_byte_trunc(c) ==
  IF (c * 255) \div 65536 > 255 THEN 255 ELSE (c * 255) \div 65536

\* src lines 349-355 for one clamped channel c
render_byte(c) ==
  IF (c * 255 + HALF) \div 65536 > 255 THEN 255 ELSE (c * 255 + HALF) \div 65536

\* the float build's TO_INT, src line 114: (int)(a) drops the fraction of a,
\* towards zero
TO_INT_float(a) == IF a >= 0 THEN a \div 65536 ELSE -((-a) \div 65536)

\* the colour chosen at src lines 236-239 by the float build, for the floor
\* points whose coordinates are multiples of 2^-15: there 0.5f * x,
\* 0.5f * z and the sum with 1000.f are exact
CheckerColor_float(pt) ==
  IF (TO_INT_float(pt[1] \div 2 + 1000 * 65536) + TO_INT_float(pt[3] \div 2)) % 2 = 1
  THEN CheckerGrey ELSE CheckerBrown

\* the float build's render, src lines 365-367: *r = C.x; *g = C.y; *b = C.z;
\* a float is written as the integer 65536 times its value
render_float(C) == <<C[1], C[2], C[3]>>

\* src lines 345-355 for one channel
Quantize(c) == render_byte(IF c < 0 THEN 0 ELSE IF c > ONE THEN ONE ELSE c)

(***************************** Bounds **************************************)
\* largest depth argument a caller passes to cast_ray directly
MaxStartDepth == 3
\* pixels rendered: every GridStep-th column and row of the 80x50 image
GridStep == 16
\* sphere_hit origins lie k half-units from the surface, |k| <= MaxGap
MaxGap == 4
\* direction vectors are normalised integer vectors with |component| <= MaxComp
MaxComp == 1
\* floor points probed lie within MaxCell half-units of (0, -4, -20)
MaxCell == 5

(***************************** Inputs **************************************)
RawDirs ==
  {v \in (-MaxComp..MaxComp) \X (-MaxComp..MaxComp) \X (-MaxComp..MaxComp) :
     v # <<0, 0, 0>>}
UnitDirs == {v3_norm(V3(S(v[1]), S(v[2]), S(v[3]))) : v \in RawDirs}
AxisDirs == {V3(ONE, 0, 0), V3(NEG(ONE), 0, 0), V3(0, ONE, 0),
             V3(0, NEG(ONE), 0), V3(0, 0, ONE), V3(0, 0, NEG(ONE))}

\* surface normals handed to the kernel functions
Normals ==
  AxisDirs \cup {v3_norm(V3(S(-1), S(1), 0)), v3_norm(V3(S(1), S(1), S(1))),
                 v3_norm(V3(S(-1), S(-2), S(-3)))}

\* directions one or two units of 2^-16 off a coordinate plane
GrazingDirs ==
  {V3(ONE, 1, 0), V3(ONE, -1, 1), V3(1, 1, ONE), V3(-1, NEG(ONE), 2), V3(1, NEG(ONE), -1),
   V3(46341, 46340, 0), V3(46341, -46340, 1)}

\* vectors handed to the normalize functions: the zero vector and vectors along
\* an axis of length 1/2, 1, 2 and 4
NormInputs ==
  {V3(0, 0, 0)} \cup {v3_scale(s, u) : s \in {HALF, ONE, S(2), S(4)}, u \in AxisDirs}
\* vectors so short that their Q16.16 length is computed as 0
TinyVectors == {V3(1, 0, 0), V3(0, -1, 0), V3(1, 1, 1), V3(0, 0, 181), V3(-100, 100, 100)}

\* vectors with a component whose square does not fit a scal
FarVectors == {V3(S(182), 0, 0), V3(0, S(-200), 0), V3(S(3), S(4), S(250))}

\* arguments of SQRT: the small ones, the powers of two and their neighbours,
\* squares of Q16.16 numbers and their neighbours, the ends of the range
SqrtInputs ==
  (-2..300) \cup {MinInt, NEG(ONE), MaxInt - 1, MaxInt}
  \cup {2 ^ k + d : k \in 2..30, d \in {-1, 0, 1}}
  \cup {MUL(S(k), S(k)) + d : k \in 1..181, d \in {-1, 0, 1}}
\* 0, 1, 2^62, 2^63, 2^64 - 1 and 2^48 - 1 as 16-bit limbs, least first
IsqrtInputs ==
  {U64Zero, U64(1, 0, 0, 0), U64(0, 0, 0, 16384), U64(0, 0, 0, 32768),
   U64(65535, 65535, 65535, 65535), U64(65535, 65535, 65535, 0)}

\* bases of POWI: 0, the smallest, halves and quarters, 1/sqrt(2), 0.9, the
\* neighbours of ONE, ONE, and bases outside [0, ONE]
PowBases ==
  {0, 1, 2, 255, 256, 257, 16384, HALF, 46340, 46341, 49152, SF(9, 10),
   65000, 65500, ONE - 2, ONE - 1, ONE, ONE + 1, S(2), NEG(HALF), NEG(ONE)}
\* exponents: the first ones, the specular exponents of init_scene, powers of
\* two and their neighbours
PowExps == {0, 1, 2, 3, 4, 5, 7, 8, 10, 50, 125, 1425, 4095, 4096, 65536}

\* angles handed to fp_sin: around the ends of the four quadrants, in the turn
\* before 0, in [0, 2 pi) and in the turns after it, and a grid over five turns
FpAngles ==
  {q + k * FP_TWO_PI + d : q \in {0, FP_PI_DIV_2, FP_PI, FP_PI + FP_PI_DIV_2, FP_TWO_PI},
                           k \in -2..2, d \in -2..2}
  \cup {k * 4021 : k \in -200..300}

Etas == {ONE, ONE + 1, SF(15, 10), S(3)}

\* three nested spheres around the camera: every ray of depth <= 2 hits one
cage == Material(SF(15, 10), V4(SF(5, 10), SF(5, 10), SF(5, 10), SF(5, 10)),
                 V3(ONE, 0, 0), 2)
nested ==
  << Sphere(V3(0, 0, 0), S(20), cage),
     Sphere(V3(0, 0, 0), S(40), cage),
     Sphere(V3(0, 0, 0), S(60), cage) >>
Scenes ==
  { [sp |-> spheres, li |-> lights],
    [sp |-> <<>>, li |-> <<>>],
    [sp |-> nested, li |-> SubSeq(lights, 1, 1)],
    [sp |-> nested, li |-> lights] }

Origins == {V3(0, 0, 0), V3(S(3), S(2), S(-5)), V3(S(15), 0, 0)}

\* two pixels of the brightest highlight of the reference image
Highlight == {<<59, 3>>, <<61, 3>>}

Pixels ==
  {p \in (0..(GL_width - 1)) \X (0..(GL_height - 1)) :
     p[1] % GridStep = 0 /\ p[2] % GridStep = 0} \cup Highlight

\* origins 999 and 1000 above the floor, used where the scene has no sphere
FarOrigins == {V3(0, S(995), S(-20)), V3(0, S(996), S(-20))}

\* what *hit, *N and *mat hold when scene_hit is entered: as cast_ray's shadow
\* ray passes them, and values no sphere and no floor point has
Entries ==
  {[hit |-> V3(0, 0, 0), N |-> V3(0, 0, 0), mat |-> DefaultMaterial],
   [hit |-> V3(S(7), S(8), S(9)), N |-> V3(0, 0, ONE),
    mat |-> Material(SF(12, 10), V4(SF(1, 10), SF(2, 10), SF(3, 10), SF(4, 10)),
                     V3(SF(6, 10), SF(7, 10), SF(8, 10)), 7)]}

\* directions of the rays handed to scene_hit
RayDirs == UnitDirs \cup {render_dir(p[1], p[2]) : p \in Pixels}

\* pixels evaluated in pairs: sky, floor, the highlight, the glass sphere
ParPixels == {<<0, 0>>, <<48, 32>>, <<59, 3>>, <<32, 32>>}

Centers == {V3(0, 0, S(-16)), V3(S(-3), S(1), S(-16))}
Radii == {S(1), S(2), S(179), S(182)}
Gaps == {k * HALF : k \in (-MaxGap)..MaxGap}

FloorCoords == {k * HALF : k \in (-MaxCell)..MaxCell}
FloorSteps == {<<HALF, 0>>, <<0, HALF>>, <<ONE, 0>>, <<0, ONE>>, <<S(2), 0>>, <<0, S(2)>>}

Channels == {NEG(ONE), -1, 0, 128, 129, ONE - 1, ONE, ONE + 1}

\* components of a float colour: 0, 0.5, 1, 1.5 and 17, all exact floats
FloatChannels == {0, HALF, ONE, ONE + HALF, S(17)}

(****************************** State **************************************)
VARIABLES
  mode,      \* "idle", "cast", "render", "done", "drawn", "drawnf", "fn", "earth"
  scene,     \* [sp, li]: the sp/ns/li/nl arguments of the running cast_ray
  stack,     \* activation records of cast_ray, innermost last
  returning, \* TRUE when a cast_ray call has just returned ret
  ret,       \* the colour returned by the last completed cast_ray
  n_cast,    \* cast_ray invocations since the outermost call
  n_hit,     \* scene_hit calls since the outermost call
  n_step,    \* steps executed since the outermost call
  root,      \* [orig, dir, depth, x, y] of the outermost call
  rgb,       \* what render stores through r, g, b: bytes, or floats times 65536
  last,      \* [how, orig, dir, depth]: the cast_ray call that returned ret
  call,      \* the last direct call of a kernel function and its result
  parked,    \* the evaluation of render that is not running, when two are in progress
  earth      \* the terrain renderer: its globals, the locals of main, the pixel reached

vars == <<mode, scene, stack, returning, ret, n_cast, n_hit, n_step, root, rgb, last, call,
          parked, earth>>

NoCall == [fn |-> "none"]
NoLast == [how |-> "none", orig |-> V3(0, 0, 0), dir |-> V3(0, 0, 0), depth |-> 0]
NoPark == [mode |-> "none"]
NoEarth == [px |-> 0]
NoRoot == [orig |-> V3(0, 0, 0), dir |-> V3(0, 0, 0), depth |-> 0, x |-> -1, y |-> -1]

Frame(orig, dir, depth) ==
  [orig |-> orig, dir |-> dir, depth |-> depth, pc |-> "enter",
   P |-> V3(0, 0, 0), N |-> V3(0, 0, 0), M |-> DefaultMaterial,
   Tdir |-> V3(0, 0, 0), Torg |-> V3(0, 0, 0),
   Rcol |-> V3(0, 0, 0), Tcol |-> V3(0, 0, 0),
   i |-> 0, diff |-> 0, spec |-> 0]

Top == stack[Len(stack)]
Returned(how) == [how |-> how, orig |-> Top.orig, dir |-> Top.dir, depth |-> Top.depth]
Pop == SubSeq(stack, 1, Len(stack) - 1)
SetTop(f) == [stack EXCEPT ![Len(stack)] = f]

\* no call is in progress and none has been made yet
Quiet == mode = "idle"

Init ==
  /\ mode = "idle"
  /\ scene = [sp |-> spheres, li |-> lights]
  /\ stack = <<>>
  /\ returning = FALSE
  /\ ret = V3(0, 0, 0)
  /\ n_cast = 0
  /\ n_hit = 0
  /\ n_step = 0
  /\ root = NoRoot
  /\ rgb = <<0, 0, 0>>
  /\ last = NoLast
  /\ call = NoCall
  /\ parked = NoPark
  /\ earth = NoEarth

\* the state a new outermost call starts from
Start(m, sc, orig, dir, depth, x, y) ==
  /\ mode' = m
  /\ scene' = sc
  /\ stack' = << Frame(orig, dir, depth) >>
  /\ returning' = FALSE
  /\ ret' = V3(0, 0, 0)
  /\ n_cast' = 1
  /\ n_hit' = 0
  /\ n_step' = 0
  /\ root' = [orig |-> orig, dir |-> dir, depth |-> depth, x |-> x, y |-> y]
  /\ rgb' = <<0, 0, 0>>
  /\ last' = NoLast
  /\ call' = NoCall

\* cast_ray(orig, dir, sp, ns, li, nl, depth) called directly
CallCastRay ==
  /\ Quiet
  /\ \E sc \in Scenes, orig \in Origins, dir \in AxisDirs, depth \in 0..MaxStartDepth :
       Start("cast", sc, orig, dir, depth, -1, -1)
  /\ UNCHANGED earth
  /\ parked' = NoPark

\* render(x, y, &r, &g, &b) up to its call of cast_ray
CallRender ==
  /\ Quiet
  /\ \E p \in Pixels :
       Start("render", [sp |-> spheres, li |-> lights], V3(0, 0, 0),
             render_dir(p[1], p[2]), 0, p[1], p[2])
  /\ UNCHANGED earth
  /\ parked' = NoPark

Running == mode \in {"cast", "render"} /\ stack # <<>>

\* depth > MAXD: return the sky without calling scene_hit
EnterSky ==
  /\ Running /\ Top.pc = "enter" /\ ~returning
  /\ DepthExceeded(Top.depth)
  /\ stack' = Pop
  /\ ret' = SkyColor(Top.dir)
  /\ returning' = TRUE
  /\ last' = Returned("limit")
  /\ n_step' = n_step + 1
  /\ UNCHANGED <<mode, scene, n_cast, n_hit, root, rgb, call, parked, earth>>

\* scene_hit finds nothing: return the sky
EnterMiss ==
  /\ Running /\ Top.pc = "enter" /\ ~returning
  /\ ~DepthExceeded(Top.depth)
  /\ \E h \in {scene_hit(Top.orig, Top.dir, scene.sp, Top.P, Top.N, Top.M)} :
       /\ ~h.ok
       /\ scene' = [scene EXCEPT !.sp = scene_hit_sp(scene.sp, h)]
  /\ stack' = Pop
  /\ ret' = SkyColor(Top.dir)
  /\ returning' = TRUE
  /\ n_hit' = n_hit + 1
  /\ last' = Returned("miss")
  /\ n_step' = n_step + 1
  /\ UNCHANGED <<mode, n_cast, root, rgb, call, parked, earth>>

\* scene_hit finds a surface: src lines 260-268, up to the reflection call
EnterHit ==
  /\ Running /\ Top.pc = "enter" /\ ~returning
  /\ ~DepthExceeded(Top.depth)
  /\ \E h \in {scene_hit(Top.orig, Top.dir, scene.sp, Top.P, Top.N, Top.M)} :
       /\ h.ok
       /\ scene' = [scene EXCEPT !.sp = scene_hit_sp(scene.sp, h)]
       /\ \E Rdir \in {v3_norm(reflect(Top.dir, h.N))},
             Tdir \in {v3_norm(refract_(Top.dir, h.N, h.mat.refr, ONE))} :
            stack' = Append(SetTop([Top EXCEPT !.pc = "refl", !.P = h.hit,
                                               !.N = h.N, !.M = h.mat,
                                               !.Tdir = Tdir,
                                               !.Torg = BiasedOrigin(Tdir, h.hit, h.N)]),
                            Frame(BiasedOrigin(Rdir, h.hit, h.N), Rdir, ChildDepth(Top.depth)))
  /\ n_hit' = n_hit + 1
  /\ n_cast' = n_cast + 1
  /\ n_step' = n_step + 1
  /\ UNCHANGED <<mode, returning, ret, root, rgb, last, call, parked, earth>>

\* Rcol = result of the reflection call; src line 269 calls for Tcol
ReturnReflect ==
  /\ Running /\ Top.pc = "refl" /\ returning
  /\ stack' = Append(SetTop([Top EXCEPT !.pc = "refr", !.Rcol = ret]),
                     Frame(Top.Torg, Top.Tdir, ChildDepth(Top.depth)))
  /\ returning' = FALSE
  /\ n_cast' = n_cast + 1
  /\ n_step' = n_step + 1
  /\ UNCHANGED <<mode, scene, ret, n_hit, root, rgb, last, call, parked, earth>>

\* Tcol = result of the refraction call; src line 271
ReturnRefract ==
  /\ Running /\ Top.pc = "refr" /\ returning
  /\ stack' = SetTop([Top EXCEPT !.pc = "lights", !.Tcol = ret, !.i = 1,
                                 !.diff = 0, !.spec = 0])
  /\ returning' = FALSE
  /\ n_step' = n_step + 1
  /\ UNCHANGED <<mode, scene, ret, n_cast, n_hit, root, rgb, last, call, parked, earth>>

\* one iteration of the loop over the lights
ShadeLight ==
  /\ Running /\ Top.pc = "lights" /\ Top.i <= Len(scene.li)
  /\ \E acc \in {cast_ray_light(scene.li[Top.i], scene.sp, Top.P, Top.N, Top.M,
                                Top.dir, [diff |-> Top.diff, spec |-> Top.spec])} :
       stack' = SetTop([Top EXCEPT !.i = Top.i + 1, !.diff = acc.diff,
                                   !.spec = acc.spec])
  /\ scene' = [scene EXCEPT !.sp =
                 scene_hit_sp(scene.sp, cast_ray_shadow_hit(scene.li[Top.i], scene.sp,
                                                            Top.P, Top.N, Top.M))]
  /\ n_hit' = n_hit + 1
  /\ n_step' = n_step + 1
  /\ UNCHANGED <<mode, returning, ret, n_cast, root, rgb, last, call, parked, earth>>

\* the loop is over: compose the colour and return it
Shaded ==
  /\ Running /\ Top.pc = "lights" /\ Top.i > Len(scene.li)
  /\ stack' = Pop
  /\ ret' = cast_ray_C(Top.M, Top.diff, Top.spec, Top.Rcol, Top.Tcol)
  /\ returning' = TRUE
  /\ last' = Returned("hit")
  /\ n_step' = n_step + 1
  /\ UNCHANGED <<mode, scene, n_cast, n_hit, root, rgb, call, parked, earth>>

\* the outermost cast_ray returns to its direct caller
CastReturn ==
  /\ mode = "cast" /\ stack = <<>> /\ returning
  /\ mode' = "done"
  /\ returning' = FALSE
  /\ n_step' = n_step + 1
  /\ UNCHANGED <<scene, stack, ret, n_cast, n_hit, root, rgb, last, call, parked, earth>>

\* render clamps and quantises the colour: src lines 345-355
RenderReturn ==
  /\ mode = "render" /\ stack = <<>> /\ returning
  /\ mode' = "drawn"
  /\ returning' = FALSE
  /\ rgb' = <<Quantize(ret[1]), Quantize(ret[2]), Quantize(ret[3])>>
  /\ n_step' = n_step + 1
  /\ UNCHANGED <<scene, stack, ret, n_cast, n_hit, root, last, call, parked, earth>>

\* render from the point where cast_ray has returned C: src lines 345-355
RenderColor ==
  /\ Quiet
  /\ \E cx \in Channels, cy \in Channels, cz \in Channels :
       /\ ret' = V3(cx, cy, cz)
       /\ rgb' = <<Quantize(cx), Quantize(cy), Quantize(cz)>>
  /\ mode' = "drawn"
  /\ UNCHANGED <<scene, stack, returning, n_cast, n_hit, n_step, root, last, call, parked, earth>>

\* the float build's render from the point where cast_ray has returned C:
\* src lines 364-367
RenderFloatColor ==
  /\ Quiet
  /\ \E cx \in FloatChannels, cy \in FloatChannels, cz \in FloatChannels :
       /\ ret' = V3(cx, cy, cz)
       /\ rgb' = render_float(V3(cx, cy, cz))
  /\ mode' = "drawnf"
  /\ UNCHANGED <<scene, stack, returning, n_cast, n_hit, n_step, root, last, call, parked, earth>>

(****************** Two evaluations of render in progress ******************)
\* render(x, y) about to call cast_ray, not running: its locals are its own
\* (automatic storage, src lines 335-344 and 248-254)
Fresh(p) ==
  [mode |-> "render", stack |-> << Frame(V3(0, 0, 0), render_dir(p[1], p[2]), 0) >>,
   returning |-> FALSE, ret |-> V3(0, 0, 0), n_cast |-> 1, n_hit |-> 0, n_step |-> 0,
   root |-> [orig |-> V3(0, 0, 0), dir |-> render_dir(p[1], p[2]), depth |-> 0,
             x |-> p[1], y |-> p[2]],
   rgb |-> <<0, 0, 0>>, last |-> NoLast, interleaved |-> FALSE]

\* render for two pixels of one frame, started together over the scene of
\* init_scene; the first one runs
CallRenderPair ==
  /\ Quiet
  /\ \E p \in ParPixels : \E q \in ParPixels \ {p} :
       /\ Start("render", [sp |-> spheres, li |-> lights], V3(0, 0, 0),
                render_dir(p[1], p[2]), 0, p[1], p[2])
       /\ UNCHANGED earth
       /\ parked' = Fresh(q)

\* the running evaluation stops where it is and the other one goes on: each
\* keeps its own locals and call stack, the scene is the one both see
Switch ==
  /\ parked # NoPark /\ parked.mode = "render"
  /\ mode \in {"render", "drawn"}
  /\ UNCHANGED earth
  /\ parked' = [mode |-> mode, stack |-> stack, returning |-> returning, ret |-> ret,
                n_cast |-> n_cast, n_hit |-> n_hit, n_step |-> n_step, root |-> root,
                rgb |-> rgb, last |-> last,
                interleaved |-> parked.interleaved
                                  \/ (mode = "render" /\ n_step > 0 /\ parked.n_step > 0)]
  /\ mode' = parked.mode
  /\ stack' = parked.stack
  /\ returning' = parked.returning
  /\ ret' = parked.ret
  /\ n_cast' = parked.n_cast
  /\ n_hit' = parked.n_hit
  /\ n_step' = parked.n_step
  /\ root' = parked.root
  /\ rgb' = parked.rgb
  /\ last' = parked.last
  /\ UNCHANGED <<scene, call>>

(*********************** DIV and SQRT about to be executed *****************)
\* the operations of the direct call recorded in call
CallOps ==
  CASE call.fn = "v3_norm" -> v3_norm_ops(call.a)
    [] call.fn \in {"sphere_hit", "Sphere_ray_intersect"} ->
         sphere_hit_ops(call.sp, call.orig, call.dir)
    [] call.fn \in {"refract_", "refract_nest"} ->
         refract_ops(call.I, call.N, call.eta_t, call.eta_i)
    [] call.fn = "scene_hit_ray" -> scene_hit_ops(call.orig, call.dir, call.sp)
    [] call.fn = "scene_hit" ->
         OpsU(scene_hit_ops(call.p, V3(0, NEG(ONE), 0), <<>>),
              scene_hit_ops(call.q, V3(0, NEG(ONE), 0), <<>>))
    [] OTHER -> NoOps

\* the operations of the step the running call of cast_ray is about to make
StepOps ==
  IF ~returning /\ Top.pc = "enter"
  THEN OpsU(cast_ray_enter_ops(Top.orig, Top.dir, scene.sp, Top.depth, Top.M),
            IF mode = "render" /\ Len(stack) = 1 THEN render_dir_ops(root.x, root.y)
            ELSE NoOps)
  ELSE IF Top.pc = "lights" /\ Top.i <= Len(scene.li)
  THEN cast_ray_light_ops(scene.li[Top.i], scene.sp, Top.P, Top.N, Top.M)
  ELSE NoOps

\* the divisors and the SQRT arguments of the Q16.16 raytracer in this state
PendingOps ==
  IF mode = "fn" THEN CallOps
  ELSE IF Running THEN StepOps
  ELSE NoOps

(********************* Direct calls of the kernel functions ****************)
\* what a direct call leaves of the tracing state
FnCall(c) ==
  /\ mode' = "fn"
  /\ call' = c
  /\ scene' = [sp |-> spheres, li |-> lights]
  /\ stack' = <<>>
  /\ returning' = FALSE
  /\ ret' = V3(0, 0, 0)
  /\ n_cast' = 0
  /\ n_hit' = 0
  /\ n_step' = 0
  /\ root' = NoRoot
  /\ rgb' = <<0, 0, 0>>
  /\ last' = NoLast
  /\ UNCHANGED earth
  /\ parked' = NoPark

\* sphere_hit for an origin on the line through the centre along u, gap away
\* from the surface (inside when gap < 0), looking at the centre or away;
\* off the axes the origin is at most 181 from the centre: the sum of the three
\* products of v3_dot(L, L) then fits a scal
CallSphereHit ==
  Quiet /\ \E c \in Centers, r \in Radii, u \in Normals, gap \in Gaps, toward \in BOOLEAN :
    /\ ADD(r, gap) > 0
    /\ (u \in AxisDirs \/ ADD(r, gap) <= S(181))
    /\ \E sp \in {Sphere(c, r, DefaultMaterial)},
          orig \in {v3_sub(c, v3_scale(ADD(r, gap), u))},
          dir \in {IF toward THEN u ELSE v3_neg(u)} :
         FnCall([fn |-> "sphere_hit", sp |-> sp, orig |-> orig, dir |-> dir,
                 u |-> u, gap |-> gap, toward |-> toward,
                 out |-> sphere_hit(sp, orig, dir, 0)])

\* the same call made to both copies of the function, on a ray along an axis
\* through the centre where the float operations are exact
CallSphereRayIntersect ==
  Quiet /\ \E c \in Centers, r \in Radii, u \in AxisDirs, gap \in Gaps, toward \in BOOLEAN :
    /\ ADD(r, gap) > 0
    /\ r <= S(181) /\ ADD(r, gap) <= S(181)
    /\ \E sp \in {Sphere(c, r, DefaultMaterial)},
          orig \in {v3_sub(c, v3_scale(ADD(r, gap), u))},
          dir \in {IF toward THEN u ELSE v3_neg(u)} :
         FnCall([fn |-> "Sphere_ray_intersect", sp |-> sp, orig |-> orig, dir |-> dir,
                 u |-> u, gap |-> gap, toward |-> toward,
                 out |-> sphere_hit(sp, orig, dir, 0),
                 outf |-> Sphere_ray_intersect(sp, orig, dir, 0)])

\* v3_norm(a) of the Q16.16 build
CallV3Norm ==
  Quiet /\ \E a \in NormInputs \cup TinyVectors \cup FarVectors :
    FnCall([fn |-> "v3_norm", a |-> a, L |-> v3_len(a), out |-> v3_norm(a),
            divs |-> v3_norm_divs(a)])

\* vec3_normalize(U) of render.c
CallVec3Normalize ==
  Quiet /\ \E U \in NormInputs :
    FnCall([fn |-> "vec3_normalize", a |-> U, L |-> vec3_length(U), out |-> vec3_normalize(U),
            divs |-> vec3_normalize_divs(U)])

\* SQRT(x) of the Q16.16 build
CallSQRT ==
  Quiet /\ \E x \in SqrtInputs :
    FnCall([fn |-> "SQRT", x |-> x, out |-> SQRT(x),
            passes |-> IF x <= 0 THEN 0
                       ELSE isqrt_u64_passes(U64(0, x % 65536, x \div 65536, 0))])

\* the checker colour of one floor point in the two builds
CallCheckerColor ==
  Quiet /\ \E px \in FloorCoords, pz \in FloorCoords, dz \in {-2, 0, 2} :
    \E pt \in {V3(px, S(-4), ADD(ADD(S(-20), pz), dz))} :
      FnCall([fn |-> "checker", pt |-> pt,
              fixed |-> CheckerColor(pt), float |-> CheckerColor_float(pt)])

\* fp_sin(angle) of the terrain renderer
CallFpSin ==
  Quiet /\ \E angle \in FpAngles :
    FnCall([fn |-> "fp_sin", angle |-> angle, norm |-> fp_sin_normalize(angle),
            index |-> fp_sin_index(fp_sin_quarter(fp_sin_normalize(angle))),
            out |-> fp_sin(angle)])

\* POWI(a, e) of the Q16.16 build
CallPOWI ==
  Quiet /\ \E a \in PowBases, e \in PowExps :
    FnCall([fn |-> "POWI", a |-> a, e |-> e, out |-> POWI(a, e),
            passes |-> PowLoopPasses(e, 0)])

\* isqrt_u64(x) on 64-bit arguments no scal gives
CallIsqrt ==
  Quiet /\ \E x \in IsqrtInputs :
    FnCall([fn |-> "isqrt_u64", x |-> x, out |-> isqrt_u64(x), passes |-> isqrt_u64_passes(x)])

CallReflect ==
  Quiet /\ \E I \in UnitDirs, N \in Normals :
    FnCall([fn |-> "reflect", I |-> I, N |-> N, out |-> reflect(I, N)])

CallRefract ==
  Quiet /\ \E I \in UnitDirs, N \in Normals, eta_t \in Etas, eta_i \in Etas :
    FnCall([fn |-> "refract_", I |-> I, N |-> N, eta_t |-> eta_t, eta_i |-> eta_i,
            out |-> refract_(I, N, eta_t, eta_i)])

\* refract_ with its nesting recorded, also for directions nearly along the surface
CallRefractNest ==
  Quiet /\ \E I \in UnitDirs \cup GrazingDirs, N \in Normals, eta_t \in Etas, eta_i \in Etas :
    FnCall([fn |-> "refract_nest", I |-> I, N |-> N, eta_t |-> eta_t, eta_i |-> eta_i,
            out |-> refract_(I, N, eta_t, eta_i), nest |-> refract_nest(I, N, 1)])

\* scene_hit(orig, dir, sp, ns, &hit, &N, &mat) for a ray of the camera or of
\* the direction set, over the spheres of a scene
CallSceneHit ==
  Quiet /\ \E sc \in Scenes, orig \in Origins \cup FarOrigins, dir \in RayDirs,
             ent \in Entries :
    /\ orig \in FarOrigins => sc.sp = <<>>
    /\ FnCall([fn |-> "scene_hit_ray", sp |-> sc.sp, orig |-> orig, dir |-> dir,
               hit0 |-> ent.hit, N0 |-> ent.N, mat0 |-> ent.mat,
               out |-> scene_hit(orig, dir, sc.sp, ent.hit, ent.N, ent.mat)])

\* scene_hit straight down from height 0 onto two floor points p and q
CallSceneHitFloor ==
  Quiet /\ \E px \in FloorCoords, pz \in FloorCoords, step \in FloorSteps :
    \E p \in {V3(px, 0, ADD(S(-20), pz))},
       q \in {V3(ADD(px, step[1]), 0, ADD(ADD(S(-20), pz), step[2]))} :
      FnCall([fn |-> "scene_hit", p |-> p, q |-> q,
              out |-> scene_hit(p, V3(0, NEG(ONE), 0), <<>>, V3(0, 0, 0),
                                V3(0, 0, 0), DefaultMaterial),
              out2 |-> scene_hit(q, V3(0, NEG(ONE), 0), <<>>, V3(0, 0, 0),
                                 V3(0, 0, 0), DefaultMaterial)])

\* cast_ray and render, run as the program runs them
NextTrace ==
  \/ CallCastRay
  \/ CallRender
  \/ EnterSky
  \/ EnterMiss
  \/ EnterHit
  \/ ReturnReflect
  \/ ReturnRefract
  \/ ShadeLight
  \/ Shaded
  \/ CastReturn
  \/ RenderReturn
  \/ RenderColor
  \/ RenderFloatColor

SpecTrace == Init /\ [][NextTrace]_vars

\* render for one pixel, or for two pixels evaluated in any interleaving
NextPar ==
  \/ CallRender
  \/ CallRenderPair
  \/ Switch
  \/ EnterSky
  \/ EnterMiss
  \/ EnterHit
  \/ ReturnReflect
  \/ ReturnRefract
  \/ ShadeLight
  \/ Shaded
  \/ RenderReturn

SpecPar == Init /\ [][NextPar]_vars

\* an outermost call has been made and has not returned yet
InProgress == mode \in {"cast", "render"}

\* the call in progress executes its next step
Advance == InProgress /\ n_step' = n_step + 1

\* the program is sequential: a call in progress keeps executing
FairTrace == SpecTrace /\ WF_n_step(Advance)

(************************ The terrain renderer's main **********************)
\* the pixels followed in each scan, in scan order: a corner, the middle, the
\* opposite corner
EarthPixels == << <<0, 0>>, <<40, 25>>, <<79, 49>> >>
\* the passes of while(1) followed from a start
MaxFrames == 560

\* what the terrain renderer leaves alone; n_step counts its steps
RayVars == <<mode, scene, stack, returning, ret, n_cast, n_hit, root, rgb, last, call, parked>>

\* main is entered: GL_init() and the initialisers
EarthMain ==
  /\ Quiet
  /\ mode' = "earth"
  /\ earth' = EarthStart
  /\ UNCHANGED <<scene, stack, returning, ret, n_cast, n_hit, n_step, root, rgb, last, call,
                 parked>>

\* GL_scan_RGBf calls render_pixel for the next pixel
RenderPixel ==
  /\ mode = "earth" /\ earth.px <= Len(EarthPixels)
  /\ earth' = GL_scan_pixel(earth, EarthPixels[earth.px])
  /\ n_step' = n_step + 1
  /\ UNCHANGED RayVars

\* GL_scan_RGBf has returned: GL_swapbuffers() and the rest of the pass
NextFrame ==
  /\ mode = "earth" /\ earth.px > Len(EarthPixels)
  /\ earth.n_frames < MaxFrames
  /\ earth' = main_counted(earth, main_pass(earth))
  /\ n_step' = n_step + 1
  /\ UNCHANGED RayVars

NextEarth == EarthMain \/ RenderPixel \/ NextFrame

\* the state of the terrain renderer after 1730340 passes of its loop
InitLate ==
  /\ mode = "earth"
  /\ scene = [sp |-> spheres, li |-> lights]
  /\ stack = <<>>
  /\ returning = FALSE
  /\ ret = V3(0, 0, 0)
  /\ n_cast = 0
  /\ n_hit = 0
  /\ n_step = 0
  /\ root = NoRoot
  /\ rgb = <<0, 0, 0>>
  /\ last = NoLast
  /\ call = NoCall
  /\ parked = NoPark
  /\ earth = EarthLate

SpecEarth == (Init \/ InitLate) /\ [][NextEarth]_vars

\* the terrain renderer executes its next step: a pixel of the scan, or the
\* rest of the pass while passes are followed
EarthAdvance ==
  /\ mode = "earth"
  /\ earth.px <= Len(EarthPixels) \/ earth.n_frames < MaxFrames
  /\ n_step' = n_step + 1

\* the program is sequential and its loop has no exit: it keeps executing
FairEarth == SpecEarth /\ WF_n_step(EarthAdvance)

\* the kernel functions, each applied to inputs drawn from the sets above
NextKernel ==
  \/ CallSphereHit
  \/ CallSphereRayIntersect
  \/ CallSceneHit
  \/ CallSQRT
  \/ CallFpSin
  \/ CallCheckerColor
  \/ CallPOWI
  \/ CallIsqrt
  \/ CallV3Norm
  \/ CallVec3Normalize
  \/ CallReflect
  \/ CallRefract
  \/ CallRefractNest
  \/ CallSceneHitFloor

SpecKernel == Init /\ [][NextKernel]_vars

Next == NextTrace \/ NextPar \/ NextKernel \/ NextEarth

Spec == Init /\ [][Next]_vars

(***************************** Claims **************************************)
\* floor(s * k / 2^16) for 0 <= s <= ONE and 0 <= k < 2^16
Frac(s, k) == IF s = ONE THEN k ELSE ((s \div 256) * k + ((s % 256) * k) \div 256) \div 256

\* the sky gradient s*(0.2, 0.7, 0.8) + s*(0, 0, 0.5), s = 0.5*(dy + 1), in Q16.16
SkyOf(dy) ==
  <<Frac((dy + ONE) \div 2, 13107),
    Frac((dy + ONE) \div 2, 45875),
    Frac((dy + ONE) \div 2, 52429) + Frac((dy + ONE) \div 2, 32768)>>

\* C1: cast_ray called with depth = MAX_DEPTH + 1 = 3 returns the sky colour of its
\* direction at once: no scene_hit call, no nested cast_ray call.
C1_DepthLimitReturnsSky ==
  (mode \in {"cast", "done"} /\ root.depth = MAXD + 1) =>
    /\ n_hit = 0
    /\ n_cast = 1
    /\ Len(stack) <= 1
    /\ (mode = "done" => ret = SkyOf(root.dir[2]) /\ last.how = "limit")

C1_Witness ==
  /\ mode = "done" /\ root.depth = MAXD + 1
  /\ scene.sp = nested
  /\ ret = SkyOf(root.dir[2])

\* a cast_ray call started at depth 0 is in progress or has returned
FromDepth0 == n_cast >= 1 /\ root.depth = 0

\* the call in progress has a next step: src lines 254, 268, 269, 271, 292
CanStep ==
  IF stack = <<>> THEN returning
  ELSE \/ Top.pc = "enter" /\ ~returning
       \/ Top.pc \in {"refl", "refr"} /\ returning
       \/ Top.pc = "lights" /\ ~returning

C2_Bounds ==
  FromDepth0 =>
    /\ InProgress => CanStep
    /\ \A i \in DOMAIN stack :
         /\ stack[i].depth = i - 1
         /\ stack[i].depth \in 0..(MAXD + 1)
         /\ stack[i].pc # "enter" => stack[i].depth <= MAXD
    /\ n_cast <= 15
    /\ n_hit <= 7 * (1 + Len(scene.li))

\* C2: every cast_ray call started at depth 0 terminates; the depth of every nested
\* call is in 0..3, only rays at depth 0, 1, 2 are intersected and shaded, and one
\* primary ray costs at most 15 cast_ray invocations and 7*(1+nl) scene_hit calls.
C2_TerminatesWithinBounds ==
  /\ [] C2_Bounds
  /\ (InProgress /\ root.depth = 0) ~> (mode \in {"done", "drawn"})

C2_Witness ==
  /\ mode = "done" /\ root.depth = 0
  /\ Len(scene.li) = 3
  /\ n_cast = 15
  /\ n_hit = 28

\* C3: when scene_hit reports no hit, cast_ray returns exactly the sky gradient of
\* dir.y, whatever the depth (0, 1 or 2), the origin and dir.x, dir.z.
C3_MissReturnsSkyOfDirY ==
  (returning /\ last.how = "miss") =>
    /\ ret = SkyOf(last.dir[2])
    /\ last.depth \in 0..MAXD

C3_Witness ==
  /\ returning /\ last.how = "miss"
  /\ last.depth = MAXD
  /\ last.orig # V3(0, 0, 0)
  /\ last.dir[1] # 0
  /\ ret = SkyOf(last.dir[2])

\* C4 as amended: a missing ray with dir.y = -1 (s = 0) gets black (0, 0, 0), both
\* sky colours being scaled by s; with dir.y = 1 (s = 1) it gets A + B = (0.2, 0.7, 1.3).
C4_SkyEnds ==
  (returning /\ last.how = "miss") =>
    /\ last.dir[2] = NEG(ONE) => ret = <<0, 0, 0>>
    /\ last.dir[2] = ONE => ret = <<13107, 45875, 85197>>

C4_Witness ==
  /\ returning /\ last.how = "miss"
  /\ last.dir[2] = NEG(ONE)
  /\ ret = <<0, 0, 0>>

\* C4 as stated: dir.y = -1 gives the pure colour A = (0.2, 0.7, 0.8), dir.y = 1 gives A + B.
C4_Original ==
  (returning /\ last.how = "miss") =>
    /\ last.dir[2] = NEG(ONE) => ret = <<13107, 45875, 52429>>
    /\ last.dir[2] = ONE => ret = <<13107, 45875, 85197>>

\* |a - b| <= tol
Near(a, b, tol) == a - b <= tol /\ b - a <= tol

\* a direct call of sphere_hit with the ray along the line through the centre
CentralRay(toward) == mode = "fn" /\ call.fn = "sphere_hit" /\ call.toward = toward

\* the squares of the radius and of the origin's distance to the centre fit Q16.16
InRange == call.sp.radius <= S(181) /\ ADD(call.sp.radius, call.gap) <= S(181)

C6_RayAwayMisses == (CentralRay(FALSE) /\ call.gap > 0) => ~call.out.ok

C6_Witness ==
  /\ CentralRay(FALSE)
  /\ call.gap = HALF
  /\ call.u \notin AxisDirs
  /\ ~call.out.ok

\* the floor hit of a direct scene_hit call and its 2x2 cell
FloorHits == mode = "fn" /\ call.fn = "scene_hit" /\ call.out.ok /\ call.out2.ok
Cell2(pt) == <<pt[1] \div (2 * ONE), pt[3] \div (2 * ONE)>>
Cell1(pt) == <<pt[1] \div ONE, pt[3] \div ONE>>
EdgeAdjacent(a, b) ==
  \/ a[2] = b[2] /\ (a[1] = b[1] + 1 \/ b[1] = a[1] + 1)
  \/ a[1] = b[1] /\ (a[2] = b[2] + 1 \/ b[2] = a[2] + 1)

EqualEta == mode = "fn" /\ call.fn = "refract_" /\ call.eta_i = call.eta_t

\* C8 as amended: with equal indices refract_ returns I up to rounding: every
\* component is within 2^-8 of I's (255 units of 2^-16), on either face, and it
\* is I exactly when I is along the normal (I = N or I = -N, N on an axis).
C8_EqualEtaKeepsDirection ==
  EqualEta =>
    /\ \A i \in 1..3 : Near(call.out[i], call.I[i], 255)
    /\ (call.N \in AxisDirs /\ call.I \in {call.N, v3_neg(call.N)}) => call.out = call.I

C8_Witness ==
  /\ EqualEta
  /\ call.eta_i = SF(15, 10)
  /\ v3_dot(call.I, call.N) > 0
  /\ call.out # call.I
  /\ \A i \in 1..3 : Near(call.out[i], call.I[i], 255)

\* C8 as stated: with equal indices refract_ returns I, component for component.
C8_Original == EqualEta => call.out = call.I

\* C9: reflect of the straight-down direction on the normal (0, 1, 0) is exactly
\* the straight-up direction (0, ONE, 0).
C9_ReflectDownIsUp ==
  (mode = "fn" /\ call.fn = "reflect" /\ call.I = <<0, -65536, 0>> /\ call.N = <<0, 65536, 0>>)
    => call.out = <<0, 65536, 0>>

C9_Witness ==
  /\ mode = "fn" /\ call.fn = "reflect"
  /\ call.I = <<0, -65536, 0>>
  /\ call.N = <<0, 65536, 0>>
  /\ call.out = <<0, 65536, 0>>

\* c clamped to [0, ONE]
Clamp01(c) == IF c < 0 THEN 0 ELSE IF c > ONE THEN ONE ELSE c

\* r is 255 * c / 65536 rounded to the nearest integer, halves upwards
RoundedByte(r, c) ==
  /\ r \in 0..255
  /\ 65536 * r <= 255 * c + 32768
  /\ 255 * c + 32768 < 65536 * (r + 1)

\* C10: render returns each channel of the colour C of cast_ray as the integer
\* floor(255 * clamp(c, 0, ONE) / 65536 + 1/2) in 0..255: 0 for c <= 0, 255 for c >= ONE.
C10_RenderRoundsToByte ==
  mode = "drawn" =>
    \A i \in 1..3 :
      /\ RoundedByte(rgb[i], Clamp01(ret[i]))
      /\ ret[i] <= 0 => rgb[i] = 0
      /\ ret[i] >= ONE => rgb[i] = 255

C10_Witness ==
  /\ mode = "drawn"
  /\ root.x = 59 /\ root.y = 3
  /\ ret = <<38986, 64552, 95233>>
  /\ rgb = <<152, 251, 255>>

\* C11 as stated: the float build's render returns every channel within [0, 1],
\* also for a colour of cast_ray with a component below 0 or above 1.
C11_FloatRenderClamps ==
  mode = "drawnf" => \A i \in 1..3 : 0 <= rgb[i] /\ rgb[i] <= ONE

\* the frames of the running call whose scene_hit found the floor
FloorFrames == {i \in DOMAIN stack : stack[i].pc # "enter" /\ stack[i].N = <<0, 65536, 0>>}

\* C13: once a call runs, no step changes spheres[] or lights[]: the scene stays the
\* one the call was given; a plane hit leaves the checker colour in the caller's
\* Material M only, every sphere keeping the material init_scene gave it.
C13_SceneReadOnly ==
  /\ [][InProgress => scene' = scene]_vars
  /\ [](scene \in Scenes)
  /\ [](\A i \in FloorFrames :
          /\ stack[i].M.diffuse \in {<<19661, 19661, 19661>>, <<19661, 13107, 6554>>}
          /\ \A k \in DOMAIN scene.sp : scene.sp[k].m.diffuse # stack[i].M.diffuse)

C13_Witness ==
  /\ mode = "render"
  /\ scene.sp = spheres
  /\ \E i \in FloorFrames :
       /\ stack[i].M.diffuse = <<19661, 13107, 6554>>
       /\ stack[i].pc = "lights" /\ stack[i].i > 1

\* the bytes the sequential pass draws at the pixels of ParPixels
SeqColour(x, y) ==
  CASE <<x, y>> = <<0, 0>> -> <<35, 124, 230>>
    [] <<x, y>> = <<48, 32>> -> <<174, 116, 58>>
    [] <<x, y>> = <<59, 3>> -> <<152, 251, 255>>
    [] <<x, y>> = <<32, 32>> -> <<4, 13, 24>>

\* C12: render evaluated for a pixel alone, or for two pixels of the frame with
\* their steps interleaved in any way, draws at each pixel the same colour: the
\* one of the sequential pass.
C12_AnyInterleavingSameColour ==
  /\ (mode = "drawn" /\ <<root.x, root.y>> \in ParPixels) => rgb = SeqColour(root.x, root.y)
  /\ (parked # NoPark /\ parked.mode = "drawn")
       => parked.rgb = SeqColour(parked.root.x, parked.root.y)

C12_Witness ==
  /\ mode = "drawn" /\ parked # NoPark /\ parked.mode = "drawn"
  /\ parked.interleaved
  /\ n_cast > 1 /\ parked.n_cast > 1
  /\ {<<root.x, root.y>>, <<parked.root.x, parked.root.y>>} = {<<59, 3>>, <<32, 32>>}

\* component k of diffuse*albedo.x*M.diffuse + specular*albedo.y*(1,1,1)
\* + albedo.z*reflect_color + albedo.w*refract_color, every product a MUL
HitColour(f, k) ==
  ADD(ADD(ADD(MUL(MUL(f.diff, f.M.albedo[1]), f.M.diffuse[k]), MUL(f.spec, f.M.albedo[2])),
          MUL(f.M.albedo[3], f.Rcol[k])),
      MUL(f.M.albedo[4], f.Tcol[k]))

\* the frame of the caller after the step
TopAfter == stack'[Len(stack)]

\* C15: a call that hit a surface returns, once the loop over the lights is over,
\* diff*albedo.x*M.diffuse + spec*albedo.y*(1,1,1) + albedo.z*Rcol + albedo.w*Tcol
\* with no component clamped; Rcol and Tcol are what the two calls at depth + 1
\* returned, the second along Tdir from Torg.
C15_HitColourComposition ==
  /\ [][(Running /\ Top.pc = "lights" /\ Top.i > Len(scene.li))
          => (returning' /\ \A k \in 1..3 : ret'[k] = HitColour(Top, k))]_vars
  /\ [][(Running /\ returning /\ Top.pc = "refl")
          => (TopAfter.Rcol = ret /\ last.depth = Top.depth + 1)]_vars
  /\ [][(Running /\ returning /\ Top.pc = "refr")
          => (TopAfter.Tcol = ret /\ last.depth = Top.depth + 1
              /\ last.dir = Top.Tdir /\ last.orig = Top.Torg)]_vars

C15_Witness ==
  /\ mode = "render" /\ returning /\ stack = <<>> /\ last.how = "hit"
  /\ ret[1] > ONE /\ ret[2] > ONE /\ ret[3] > ONE
  /\ n_cast > 1

\* the shadow ray of frame f towards light lt finds a surface nearer to the
\* shadow origin than the light is to the hit point
Occluded(f, lt, Ldir, sh) ==
  sh.ok /\ v3_len(v3_sub(sh.hit, BiasedOrigin(Ldir, f.P, f.N))) < v3_len(v3_sub(lt.position, f.P))

LightShadowed(f, lt) ==
  Occluded(f, lt, v3_norm(v3_sub(lt.position, f.P)),
           cast_ray_shadow_hit(lt, scene.sp, f.P, f.N, f.M))

\* the reflected term of light direction Ldir in frame f
SpecTerm(f, Ldir) == v3_dot(v3_neg(reflect(v3_neg(Ldir), f.N)), f.dir)

\* what an unshadowed light lt adds to the sums of frame f, g the frame after
LightAdded(f, g, lt, Ldir) ==
  /\ g.diff = ADD(f.diff, MUL(lt.intensity, MAX(0, v3_dot(Ldir, f.N))))
  /\ g.spec = IF f.M.spec > 0 /\ SpecTerm(f, Ldir) > 0
              THEN ADD(f.spec, MUL(lt.intensity, POWI(SpecTerm(f, Ldir), f.M.spec)))
              ELSE f.spec

\* C16: an iteration of the light loop leaves diff and spec as they were when the
\* shadow ray finds a surface nearer than the light; otherwise it adds
\* intensity*max(0, Ldir.N) to diff and, only when the specular exponent and the
\* reflected term are both > 0, intensity*term^exponent to spec.
C16_LightLoopStep ==
  [][(Running /\ Top.pc = "lights" /\ Top.i <= Len(scene.li))
       => IF LightShadowed(Top, scene.li[Top.i])
          THEN TopAfter.diff = Top.diff /\ TopAfter.spec = Top.spec
          ELSE LightAdded(Top, TopAfter, scene.li[Top.i],
                          v3_norm(v3_sub(scene.li[Top.i].position, Top.P)))]_vars

C16_Witness ==
  /\ Running /\ Top.pc = "lights" /\ Top.i = 4
  /\ Top.diff > 0 /\ Top.spec > 0
  /\ \E i \in 1..3 : LightShadowed(Top, scene.li[i])
  /\ \E i \in 1..3 : ~LightShadowed(Top, scene.li[i])

SceneHitRay == mode = "fn" /\ call.fn = "scene_hit_ray"

\* the spheres of the call that sphere_hit reports as hit, and their distances
HitSpheres == {i \in DOMAIN call.sp : sphere_hit(call.sp[i], call.orig, call.dir, 0).ok}
SphereDist(i) == sphere_hit(call.sp[i], call.orig, call.dir, 0).t0

\* the distance d along the ray to the plane y = -4 lands on the floor patch
OnFloor(d, pt) ==
  d > SURF_BIAS /\ ABS(pt[1]) < S(10) /\ pt[3] < S(-10) /\ pt[3] > S(-30)
PlaneD == DIV(NEG(ADD(call.orig[2], S(4))), call.dir[2])
PlaneDists ==
  IF ABS(call.dir[2]) > EPS_Y /\ OnFloor(PlaneD, v3_add(call.orig, v3_scale(PlaneD, call.dir)))
  THEN {PlaneD} ELSE {}

\* the least of the distances, BIG_SCAL when there is none
Nearest(ds) == IF ds = {} THEN BIG_SCAL ELSE CHOOSE d \in ds : \A e \in ds : d <= e
NearestDist == Nearest({SphereDist(i) : i \in HitSpheres} \cup PlaneDists)
\* the first sphere at the least distance, 0 when the plane is strictly nearer
NearestSphere ==
  IF \E i \in HitSpheres : SphereDist(i) = NearestDist
  THEN CHOOSE i \in HitSpheres :
         /\ SphereDist(i) = NearestDist
         /\ \A j \in HitSpheres : SphereDist(j) = NearestDist => i <= j
  ELSE 0

\* C17: scene_hit returns true exactly when the least of the valid sphere_hit
\* distances and the plane distance is below 1000; the hit point is then at that
\* distance along the ray and the normal is normalize(hit - centre) of the
\* nearest sphere, or (0, 1, 0) when the plane is nearer.
C17_SceneHitNearest ==
  SceneHitRay =>
    /\ call.out.ok <=> NearestDist < S(1000)
    /\ call.out.ok =>
         /\ call.out.hit = v3_add(call.orig, v3_scale(NearestDist, call.dir))
         /\ call.out.N = IF NearestSphere = 0 THEN V3(0, ONE, 0)
                         ELSE v3_norm(v3_sub(call.out.hit, call.sp[NearestSphere].center))

\* two spheres and more are hit and the nearest is not the last of them
C17_Witness ==
  /\ SceneHitRay /\ call.out.ok
  /\ Cardinality(HitSpheres) >= 2
  /\ \E j \in HitSpheres : j > NearestSphere /\ SphereDist(j) > NearestDist
  /\ NearestSphere > 0

\* a direct call of sphere_hit, alone or next to Sphere_ray_intersect
SphereCall == mode = "fn" /\ call.fn \in {"sphere_hit", "Sphere_ray_intersect"}
BothCopies == mode = "fn" /\ call.fn = "Sphere_ray_intersect"

\* tca, d2, r2, thc and the two intersections t0 = tca - thc, t1 = tca + thc of the call
Tca == v3_dot(v3_sub(call.sp.center, call.orig), call.dir)
D2 == SUB(v3_dot(v3_sub(call.sp.center, call.orig), v3_sub(call.sp.center, call.orig)),
          MUL(Tca, Tca))
R2 == MUL(call.sp.radius, call.sp.radius)
Thc == SQRT(SUB(R2, D2))
T0 == SUB(Tca, Thc)
T1 == ADD(Tca, Thc)

\* the rule with threshold b applied to the result o
BiasRule(o, b) ==
  /\ o.ok <=> (D2 <= R2 /\ T1 >= b)
  /\ o.ok => (o.t0 >= b /\ o.t0 = IF T0 >= b THEN T0 ELSE T1)

\* C18 as stated: in both copies a reported hit is at least a positive bias away.
C18_Original ==
  /\ SphereCall => (call.out.ok => call.out.t0 >= SURF_BIAS)
  /\ BothCopies => (call.outf.ok => call.outf.t0 > 0)

\* C18 amended: sphere_hit of tinyraytracer.c reports a hit at t0 when t0 >= SURF_BIAS,
\* otherwise at t1, and none when t1 < SURF_BIAS or d2 > r2, so a reported distance
\* is at least SURF_BIAS; Sphere_ray_intersect of render.c follows the same rule
\* with 0 in the place of the bias, so a reported distance is at least 0.
C18_SphereHitBiasRule ==
  /\ SphereCall => BiasRule(call.out, SURF_BIAS)
  /\ BothCopies => BiasRule(call.outf, 0)

\* the origin on the surface, looking at the centre: tinyraytracer.c reports the
\* far side, render.c the origin itself
C18_Witness ==
  /\ BothCopies /\ call.toward /\ call.gap = 0
  /\ call.out.ok /\ call.out.t0 = 2 * call.sp.radius
  /\ call.outf.ok /\ call.outf.t0 = 0

RefractNest == mode = "fn" /\ call.fn = "refract_nest"
BackFace == RefractNest /\ v3_dot(call.I, call.N) > 0

\* what refract_ returns for the front face of normal N: no nested call
FrontFace(I, N, eta_t, eta_i) ==
  refract_eta(I, N, DIV(eta_i, eta_t), NEG(refract_clamp(v3_dot(I, N))))

\* C19: refract_ on a back face (I.N > 0) makes exactly one nested call, with N
\* negated and the two indices swapped, and returns what that call computes
\* without a further call; on a front face it makes none: the calls never nest
\* deeper than 2.
C19_RefractNestsOnce ==
  RefractNest =>
    /\ call.nest <= 2
    /\ call.nest = IF v3_dot(call.I, call.N) > 0 THEN 2 ELSE 1
    /\ BackFace =>
         /\ v3_dot(call.I, v3_neg(call.N)) < 0
         /\ call.out = FrontFace(call.I, v3_neg(call.N), call.eta_i, call.eta_t)

\* a back face met at the smallest positive dot product
C19_Witness ==
  /\ BackFace /\ call.nest = 2
  /\ v3_dot(call.I, call.N) = 1
  /\ call.eta_t # call.eta_i

\* the normal and the ratio of indices refract_ ends up computing with
FacingN(I, N) == IF v3_dot(I, N) > 0 THEN v3_neg(N) ELSE N
FacingEta(I, N, eta_t, eta_i) == IF v3_dot(I, N) > 0 THEN DIV(eta_t, eta_i) ELSE DIV(eta_i, eta_t)
Cos2(I, N) == MUL(refract_clamp(v3_dot(I, FacingN(I, N))), refract_clamp(v3_dot(I, FacingN(I, N))))
\* k = 1 - eta^2*(1 - cosi^2)
Discriminant(I, N, eta_t, eta_i) ==
  SUB(ONE, MUL(MUL(FacingEta(I, N, eta_t, eta_i), FacingEta(I, N, eta_t, eta_i)),
               SUB(ONE, Cos2(I, N))))

RefractCall == mode = "fn" /\ call.fn \in {"refract_", "refract_nest"}
\* the frames of the running call that hit a surface under total internal reflection
TirFrames ==
  {i \in DOMAIN stack : stack[i].pc # "enter"
                        /\ Discriminant(stack[i].dir, stack[i].N, stack[i].M.refr, ONE) < 0}

\* C20: when k < 0 refract_ returns (1, 0, 0) whatever I and N are; a call of
\* cast_ray that hits a surface under total internal reflection has Tdir = (1, 0, 0)
\* and traces its refraction ray along it, at depth + 1.
C20_TotalReflectionRed ==
  /\ (RefractCall /\ Discriminant(call.I, call.N, call.eta_t, call.eta_i) < 0)
       => call.out = V3(ONE, 0, 0)
  /\ Running =>
       \A i \in TirFrames :
         /\ stack[i].Tdir = V3(ONE, 0, 0)
         /\ (stack[i].pc = "refr" /\ i < Len(stack))
              => (stack[i + 1].dir = V3(ONE, 0, 0) /\ stack[i + 1].orig = stack[i].Torg
                  /\ stack[i + 1].depth = stack[i].depth + 1)

\* the refraction ray of a totally reflecting hit is being traced
C20_Witness ==
  /\ Running /\ Len(stack) >= 2
  /\ Len(stack) - 1 \in TirFrames
  /\ stack[Len(stack) - 1].pc = "refr"
  /\ Top.dir = V3(ONE, 0, 0)
  /\ stack[Len(stack) - 1].dir # V3(ONE, 0, 0)

NormCall == mode = "fn" /\ call.fn \in {"v3_norm", "vec3_normalize"}
\* the vector a as vec3_normalize writes a result
AsFloats(a) == << <<"num", a[1]>>, <<"num", a[2]>>, <<"num", a[3]>> >>

\* C21: in each copy, normalize of a vector whose computed length is 0 returns the
\* vector unchanged and executes no division.
C21_NormalizeZeroUnchanged ==
  (NormCall /\ call.L = 0) =>
    /\ call.divs = {}
    /\ call.out = IF call.fn = "v3_norm" THEN call.a ELSE AsFloats(call.a)

\* every component of a is at most 181 in magnitude: its square fits a scal
Fits(a) == \A i \in 1..3 : ABS(a[i]) <= S(181)
NormOfFar == mode = "fn" /\ call.fn = "v3_norm" /\ ~Fits(call.a)

Pair(hi, lo) == <<hi + lo \div 16777216, lo % 16777216>>
\* r * r for 0 <= r <= 2^24
Square(r) ==
  Pair((r \div 4096) * (r \div 4096) + (2 * (r \div 4096) * (r % 4096)) \div 4096,
       ((2 * (r \div 4096) * (r % 4096)) % 4096) * 4096 + (r % 4096) * (r % 4096))
\* x * 2^16 for a scal x > 0
Times65536(x) == Pair(x \div 256, (x % 256) * 65536)
PairLe(p, q) == p[1] < q[1] \/ (p[1] = q[1] /\ p[2] <= q[2])

SqrtCall == mode = "fn" /\ call.fn = "SQRT"
IsqrtCall == mode = "fn" /\ call.fn = "isqrt_u64"
\* the 32-bit results of isqrt_u64 on IsqrtInputs: 0, 1, 2^31, 3037000499,
\* 2^32 - 1 and 2^24 - 1
IsqrtExpected(x) ==
  CASE x = U64Zero -> U64Zero
    [] x = U64(1, 0, 0, 0) -> U64(1, 0, 0, 0)
    [] x = U64(0, 0, 0, 16384) -> U64(0, 32768, 0, 0)
    [] x = U64(0, 0, 0, 32768) -> U64(62259, 46340, 0, 0)
    [] x = U64(65535, 65535, 65535, 65535) -> U64(65535, 65535, 0, 0)
    [] x = U64(65535, 65535, 65535, 0) -> U64(65535, 255, 0, 0)

\* C23: SQRT(x) is 0 for x <= 0 and, for x > 0, the r >= 0 with
\* r*r <= x*2^16 < (r+1)*(r+1); the two loops of isqrt_u64 end after 32 passes
\* together, for 0 as for every other argument.
C23_SqrtIsFloorRoot ==
  /\ (SqrtCall /\ call.x <= 0) => call.out = 0
  /\ (SqrtCall /\ call.x > 0) =>
       /\ call.out >= 0 /\ call.out < 16777216
       /\ PairLe(Square(call.out), Times65536(call.x))
       /\ ~PairLe(Square(call.out + 1), Times65536(call.x))
       /\ call.passes = 32
  /\ IsqrtCall => (call.passes = 32 /\ call.out = IsqrtExpected(call.x))

C23_Witness ==
  /\ SqrtCall /\ call.x = MaxInt
  /\ call.out = 11863283

\* natural numbers as sequences of digits below 4096, the least first
BigOf(n) == <<n % 4096, (n \div 4096) % 4096, n \div 16777216>>
\* between the multiplications the digits are left unnormalised, below 8223
BigPart(x, d, i) == IF 1 <= i /\ i <= Len(x) THEN x[i] * d ELSE 0
\* x * d for 0 <= d <= 2^16: the three digits of each x[i] * d added in place
BigMul(x, d) ==
  [k \in 1..(Len(x) + 2) |->
     (BigPart(x, d, k) % 4096) + ((BigPart(x, d, k - 1) \div 4096) % 4096)
       + (BigPart(x, d, k - 2) \div 16777216)]
RECURSIVE BigTimes(_, _, _)
\* x * d^n; Len(x) has the digits of x evaluated before the next product
BigTimes(x, d, n) == IF n = 0 \/ Len(x) = 0 THEN x ELSE BigTimes(BigMul(x, d), d, n - 1)
RECURSIVE BigNormFrom(_, _, _)
\* the digits from the i-th on of x with every digit below 4096
BigNormFrom(x, i, carry) ==
  IF i > Len(x) THEN <<carry>>
  ELSE <<(x[i] + carry) % 4096>> \o BigNormFrom(x, i + 1, (x[i] + carry) \div 4096)
BigNorm(x) == BigNormFrom(x, 1, 0)
BigDigit(x, i) == IF i <= Len(x) THEN x[i] ELSE 0
RECURSIVE BigLeFrom(_, _, _)
\* x <= y on the digits 1..i of normalised x and y
BigLeFrom(x, y, i) ==
  IF i = 0 THEN TRUE
  ELSE IF BigDigit(x, i) # BigDigit(y, i) THEN BigDigit(x, i) < BigDigit(y, i)
  ELSE BigLeFrom(x, y, i - 1)
BigLe(x, y) == BigLeFrom(x, y, IF Len(x) > Len(y) THEN Len(x) ELSE Len(y))

\* the exact power is compared for exponents up to this one
MaxExactExp == 125
\* r / 2^16 <= (a / 2^16)^e, as r * 65536^e <= a^e * 65536
BelowExactPower(r, a, e) ==
  BigLe(BigNorm(BigTimes(BigOf(r), 65536, e)), BigNorm(BigTimes(BigOf(65536), a, e)))

RECURSIVE BitLength(_)
\* the number of significant bits of e >= 0
BitLength(e) == IF e = 0 THEN 0 ELSE 1 + BitLength(e \div 2)

PowiCall == mode = "fn" /\ call.fn = "POWI"
\* the calls of POWI the light loop of the running frame is about to make
PendingPowi ==
  IF Running /\ Top.pc = "lights" /\ Top.i <= Len(scene.li)
  THEN cast_ray_light_powi(scene.li[Top.i], scene.sp, Top.P, Top.N, Top.M, Top.dir)
  ELSE {}

\* C24: POWI(a, e) with e >= 0 makes one pass per significant bit of e;
\* POWI(a, 0) = ONE and POWI(ONE, e) = ONE; for 0 <= a <= ONE the result is in
\* [0, ONE] and not above the exact power a^e; cast_ray calls POWI only with
\* base > 0 and with e the specular exponent of the hit material, e > 0.
C24_PowiBySquaring ==
  /\ PowiCall =>
       /\ call.passes = BitLength(call.e)
       /\ call.e = 0 => call.out = ONE
       /\ call.a = ONE => call.out = ONE
       /\ (0 <= call.a /\ call.a <= ONE) =>
            /\ 0 <= call.out /\ call.out <= ONE
            /\ call.e <= MaxExactExp => BelowExactPower(call.out, call.a, call.e)
  /\ \A c \in PendingPowi : c[1] > 0 /\ c[2] > 0 /\ c[2] = Top.M.spec

C24_Witness ==
  /\ PowiCall /\ call.a = SF(9, 10) /\ call.e = 50
  /\ call.passes = 6 /\ call.out > 0 /\ call.out < 338

CheckerCall == mode = "fn" /\ call.fn = "checker"

\* C25 as stated: for a floor point with |x| < 10 and -30 < z < -10 that both
\* builds represent, the Q16.16 build and the float build choose the same
\* checker colour.
C25_SameCheckerColor ==
  (CheckerCall /\ ABS(call.pt[1]) < S(10) /\ call.pt[3] < S(-10) /\ call.pt[3] > S(-30))
    => call.fixed = call.float

\* the two builds agree where 0.5 * z is a whole number
C25_AgreeOnEvenZ ==
  (CheckerCall /\ call.pt[3] % (2 * ONE) = 0) => call.fixed = call.float

\* the plane test of scene_hit succeeds: the floor is reached before any sphere
PlaneHit == PlaneDists # {} /\ PlaneD < Nearest({SphereDist(i) : i \in HitSpheres})
\* the first of the nearest spheres hit along the ray
NearestHitSphere ==
  CHOOSE i \in HitSpheres :
    /\ \A j \in HitSpheres : SphereDist(i) <= SphereDist(j)
    /\ \A j \in HitSpheres : SphereDist(j) = SphereDist(i) => i <= j
\* the material before the plane block of scene_hit
MaterialBeforePlane == IF HitSpheres = {} THEN call.mat0 ELSE call.sp[NearestHitSphere].m

\* C26: on a plane hit scene_hit changes only the diffuse colour of the
\* material: the other fields are the caller's when no sphere is hit along the
\* ray, and otherwise those of the nearest sphere hit, which lies behind the
\* plane hit; with no sphere and no plane hit, hit, N and the material are as
\* on entry.
C26_PlaneSetsDiffuseOnly ==
  SceneHitRay =>
    /\ PlaneHit =>
         /\ call.out.mat = [MaterialBeforePlane EXCEPT !.diffuse = call.out.mat.diffuse]
         /\ call.out.mat.diffuse \in {CheckerGrey, CheckerBrown}
         /\ \A i \in HitSpheres : SphereDist(i) > PlaneD
    /\ (HitSpheres = {} /\ ~PlaneHit) =>
         /\ call.out.hit = call.hit0
         /\ call.out.N = call.N0
         /\ call.out.mat = call.mat0

\* the floor is hit in front of a sphere, entered with a material of its own
C26_Witness ==
  /\ SceneHitRay /\ PlaneHit /\ HitSpheres # {}
  /\ call.mat0 # DefaultMaterial
  /\ call.out.mat.refr = SF(15, 10) /\ call.out.mat.spec = 2
  /\ call.out.mat.diffuse # call.sp[NearestHitSphere].m.diffuse

\* a call of refract_ from the rarer side: eta_i = ONE <= eta_t and I.N <= 0
FromOutside ==
  RefractCall /\ call.eta_i = ONE /\ call.eta_t >= ONE /\ v3_dot(call.I, call.N) <= 0
\* the refracted direction of src lines 191-192 for the call, k not tested
Refracted(eta, cosi, k) ==
  v3_add(v3_scale(eta, call.I), v3_scale(SUB(MUL(eta, cosi), SQRT(k)), call.N))

\* C27: with eta_i = ONE <= eta_t and I.N <= 0 the k of refract_ is not
\* negative and refract_ returns the refracted direction; a negative k, and
\* with it the value (1, 0, 0) for total internal reflection, occurs only
\* with I.N > 0, also in the calls made by cast_ray.
C27_NoTirFromOutside ==
  /\ FromOutside =>
       /\ Discriminant(call.I, call.N, call.eta_t, call.eta_i) >= 0
       /\ call.out = Refracted(DIV(ONE, call.eta_t),
                               NEG(refract_clamp(v3_dot(call.I, call.N))),
                               Discriminant(call.I, call.N, call.eta_t, call.eta_i))
  /\ (RefractCall /\ call.eta_i = ONE /\ call.eta_t >= ONE
        /\ Discriminant(call.I, call.N, call.eta_t, call.eta_i) < 0)
       => v3_dot(call.I, call.N) > 0
  /\ \A i \in TirFrames : v3_dot(stack[i].dir, stack[i].N) > 0

\* a ray nearly along the surface of the denser medium, from outside
C27_Witness ==
  /\ FromOutside /\ call.eta_t = SF(15, 10)
  /\ v3_dot(call.I, call.N) > -4 /\ call.I # call.out
  /\ Discriminant(call.I, call.N, call.eta_t, call.eta_i) > 0

EarthRuns == mode = "earth"

\* C28: while the pixel loop of a frame runs the camera (cam_x, cam_y, cam_z,
\* cam_angle) is not modified: every call of render_pixel made in the frame so
\* far read the camera as it is now, so all pixels of a frame see one camera.
C28_CameraFixedDuringScan ==
  EarthRuns => \A c \in earth.seen : c = Camera(earth)

\* the last pixel of a frame of a rotation phase, the camera having moved and
\* turned in the frames before
C28_Witness ==
  /\ EarthRuns /\ earth.px > Len(EarthPixels)
  /\ earth.seen = {Camera(earth)}
  /\ earth.state = 1 /\ earth.run > 0 /\ earth.rot_speed # 0
  /\ earth.cam_angle # 0 /\ earth.cam_x # 0

\* a step that is one pass of main's loop after the scan
EarthPass == EarthRuns /\ earth'.n_frames = earth.n_frames + 1
\* the passes of a phase: 180 of straight motion, 90 of rotation
PhaseLength(state) == IF state = 0 THEN 180 ELSE 90
\* what a pass does to the angle, the rotation speed and the phase
PassTurns ==
  /\ earth.state = 0 => (earth'.cam_angle = earth.cam_angle /\ earth.rot_speed = 0)
  /\ earth.state = 1 =>
       /\ earth'.cam_angle = earth.cam_angle + earth.rot_speed
       /\ earth'.state = 1 => earth'.rot_speed = earth.rot_speed
  /\ earth.run < PhaseLength(earth.state)
  /\ earth'.state # earth.state <=> earth.run + 1 = PhaseLength(earth.state)
\* the camera is somewhere else after the pass
PassAdvances == <<earth'.cam_x, earth'.cam_y>> # <<earth.cam_x, earth.cam_y>>
\* a phase under way that the passes followed are enough to finish
PhaseToFinish(state) ==
  EarthRuns /\ earth.state = state
    /\ earth.n_frames - earth.run + PhaseLength(state) <= MaxFrames

C29_PhasesAlternateOnly ==
  /\ [][EarthPass => PassTurns]_vars
  /\ PhaseToFinish(0) ~> (EarthRuns /\ earth.state = 1 /\ earth.run = 0)
  /\ PhaseToFinish(1) ~> (EarthRuns /\ earth.state = 0 /\ earth.run = 0)

FpSinCall == mode = "fn" /\ call.fn = "fp_sin"

\* C30 as stated: fp_sin brings the angle into [0, 2 pi) and the table index
\* of every quadrant lies in 0..255, the mask leaving it as it is; at 3 pi / 2,
\* where quadrant IV begins, the value is -quarter_sin_table[255].
C30_IndexWithinTable ==
  FpSinCall =>
    /\ 0 <= call.norm /\ call.norm < FP_TWO_PI
    /\ call.index \in 0..QUARTER_TABLE_MASK
    /\ call.index % QUARTER_TABLE_SIZE = call.index
    /\ call.norm = FP_PI + FP_PI_DIV_2 => call.out = -quarter_sin_table[QUARTER_TABLE_SIZE]

\* what does hold: the angle is normalised and the index is in 0..256, with
\* 256 reached only at FP_PI + FP_PI_DIV_2, where the mask makes it 0
C30_IndexUpToSize ==
  FpSinCall =>
    /\ 0 <= call.norm /\ call.norm < FP_TWO_PI
    /\ call.index \in 0..QUARTER_TABLE_SIZE
    /\ call.index = QUARTER_TABLE_SIZE <=> call.norm = FP_PI + FP_PI_DIV_2
    /\ call.norm = FP_PI + FP_PI_DIV_2 => call.out = 0

=============================================================================
